---------------------------- MODULE Spec2Model ----------------------------
(***************************************************************************)
(* Canary rollout control loop (src/agent/src/controller.py) and its       *)
(* simulation twin (src/env/canary_env.py, driven by the loops of          *)
(* src/rule-based.py and src/evaluate.py).                                 *)
(*                                                                         *)
(* Number representation.                                                  *)
(*  - traffic_v2 is a Python float (IEEE-754 binary64) that only ever      *)
(*    takes values produced from 0.0 by "+ 0.1" and "- 0.1" with the       *)
(*    clamps min(1.0, .) and max(0.0, .).  All such values are multiples   *)
(*    of 2^-55, so a value is kept exactly as a triple of 20-bit limbs     *)
(*    <<h, m, l>>, and every addition/subtraction is rounded to 53         *)
(*    significant bits (round-half-to-even) as the hardware does.  The     *)
(*    traffic component of an observation vector is rounded to 24          *)
(*    significant bits (dtype=np.float32).                                 *)
(*  - metric values (error rates, cpu, memory, normalized components) are  *)
(*    kept on a per-mille grid (0.04 is 40, 1.0 is 1000); latencies are    *)
(*    whole milliseconds; the cluster request rate is whole requests/s.    *)
(***************************************************************************)
EXTENDS Integers, Sequences, FiniteSets, TLC

-----------------------------------------------------------------------------
(* binary64 / binary32 arithmetic on <<h, m, l>> limb triples:           *)
(* value = (h * 2^40 + m * 2^20 + l) * 2^-55                                *)

LimbBase == 2^20

RECURSIVE BitLen(_)
BitLen(n) == IF n = 0 THEN 0 ELSE 1 + BitLen(n \div 2)

FBitLen(x) ==
  IF x[1] > 0 THEN 40 + BitLen(x[1])
  ELSE IF x[2] > 0 THEN 20 + BitLen(x[2])
  ELSE BitLen(x[3])

\* carry (or borrow) propagation; the top limb is left unbounded
FNorm(h, m, l) ==
  LET m2 == m + (l \div LimbBase)
  IN  <<h + (m2 \div LimbBase), m2 % LimbBase, l % LimbBase>>

\* drop the low shift bits of the exact value x, rounding ties to even
FRoundValue(x, shift) ==
  IF shift <= 0 THEN x
  ELSE IF shift < 20 THEN
    LET u    == 2^shift
        r    == x[3] % u
        odd  == ((x[3] \div u) % 2) = 1
        up   == (2 * r > u) \/ (2 * r = u /\ odd)
    IN  FNorm(x[1], x[2], x[3] - r + (IF up THEN u ELSE 0))
  ELSE
    LET u     == 2^(shift - 20)
        r     == x[2] % u
        odd   == ((x[2] \div u) % 2) = 1
        \* remainder r * 2^20 + l against half a unit, u * 2^19
        above == IF u = 1 THEN 2 * x[3] > LimbBase
                 ELSE (2 * r > u) \/ (2 * r = u /\ x[3] > 0)
        tie   == IF u = 1 THEN 2 * x[3] = LimbBase
                 ELSE (2 * r = u /\ x[3] = 0)
        up    == above \/ (tie /\ odd)
    IN  FNorm(x[1], x[2] - r + (IF up THEN u ELSE 0), 0)

\* round x to p significant bits; the operand and the number of bits to drop
\* are bound as values, so that each is evaluated once however often the
\* rounding reads it
FRound(x, p) ==
  CHOOSE r \in UNION {{FRoundValue(v, s) : s \in {FBitLen(v) - p}} : v \in {x}} : TRUE

FLess(x, y) ==
  \/ x[1] < y[1]
  \/ (x[1] = y[1] /\ x[2] < y[2])
  \/ (x[1] = y[1] /\ x[2] = y[2] /\ x[3] < y[3])
FLeq(x, y)  == x = y \/ FLess(x, y)

\* x + y in binary64
FAdd(x, y) == FRound(FNorm(x[1] + y[1], x[2] + y[2], x[3] + y[3]), 53)

\* x - y in binary64; a negative result is only ever compared with 0.0, so
\* it is kept as the marker <<-1, 0, 0>> (some value below 0.0)
FSub(x, y) ==
  IF FLess(x, y) THEN <<-1, 0, 0>>
  ELSE FRound(FNorm(x[1] - y[1], x[2] - y[2], x[3] - y[3]), 53)

FMin(x, y) ==
  CHOOSE r \in {IF FLess(b, a) THEN b ELSE a : a \in {x}, b \in {y}} : TRUE
FMax(x, y) ==
  CHOOSE r \in {IF FLess(a, b) THEN b ELSE a : a \in {x}, b \in {y}} : TRUE

\* astype(np.float32) of a binary64 value
F32(x) == FRound(x, 24)

\* int(x * 100): the binary64 product, truncated to an integer
FTimes100Int(x) ==
  LET p == FRound(FNorm(100 * x[1], 100 * x[2], 100 * x[3]), 53)
  IN  p[1] \div (2^15)

FZero  == <<0, 0, 0>>                   \* 0.0
FOne   == <<2^15, 0, 0>>                \* 1.0 = 2^55 * 2^-55
FTenth == <<3276, 838860, 838861>>      \* 0.1 = 3602879701896397 * 2^-55

-----------------------------------------------------------------------------
(* configuration *)

MaxSteps   == 11    \* MAX_STEPS / self.max_steps (100 in the source)
WindowSize == 2     \* WINDOW_SIZE / window_size (10 in the source)

NUM_METRICS       == 8
SLO_LATENCY       == 200     \* ms
MAX_LOCAL_LATENCY == 500     \* ms
MAX_E2E_LATENCY   == 1000    \* ms
CTL_CRIT_LOCAL    == 40      \* error_rate_v2 > 0.04
CTL_CRIT_CLUSTER  == 60      \* total_error_rate > 0.06
CTL_OK_LOCAL      == 20      \* error_rate_v2 < 0.02
CTL_OK_CLUSTER    == 30      \* total_error_rate < 0.03
MAX_RPS           == 200     \* raw_rps / 200.0

HOLD == 0
UP   == 1
DOWN == 2
Actions == {HOLD, UP, DOWN}

-----------------------------------------------------------------------------
(* helpers shared by the controller and the simulation *)

\* np.clip(v, lo, hi) on the per-mille grid
\* float("NaN"): a Prometheus sample value "NaN" (a ratio 0/0, a quantile of
\* an empty histogram) parses to the float nan.  It is kept as a reserved
\* number that no metric takes.
NaN == -(2^30)

\* a < b and a > b on floats: false when either side is nan
Lt(a, b) == a # NaN /\ b # NaN /\ a < b
Gt(a, b) == a # NaN /\ b # NaN /\ a > b

\* v / d on the per-mille grid (nan / d is nan)
Ratio(v, d) == IF v = NaN THEN NaN ELSE (v * 1000) \div d

\* np.clip(v, lo, hi): np.clip(nan, lo, hi) is nan
Clip(v, lo, hi) ==
  IF v = NaN THEN NaN ELSE IF v < lo THEN lo ELSE IF v > hi THEN hi ELSE v

\* np.clip(x, 0.0, 1.0) on a binary64 value
FClip01(x) == FMin(FMax(x, FZero), FOne)

\* dict.get(k, dflt)
Get(d, k, dflt) == IF k \in DOMAIN d THEN d[k] ELSE dflt

\* mutant: the newest entry is evicted instead of the oldest
DequeAppend_EvictNewest(buf, v, cap) ==
  IF Len(buf) < cap THEN Append(buf, v)
  ELSE Append(SubSeq(buf, 1, Len(buf) - 1), v)

\* deque(maxlen=cap).append(v)
DequeAppend(buf, v, cap) ==
  IF Len(buf) < cap THEN Append(buf, v) ELSE Append(Tail(buf), v)

RECURSIVE Concat(_)
\* np.concatenate(list(buffer))
Concat(buf) == IF buf = <<>> THEN <<>> ELSE Head(buf) \o Concat(Tail(buf))

\* mutant: UP without min(1.0, .)
ApplyTraffic_NoUpperClamp(traffic, action) ==
  IF action = UP THEN FAdd(traffic, FTenth)
  ELSE IF action = DOWN THEN FMax(FZero, FSub(traffic, FTenth))
  ELSE traffic

\* mutant: "elif action == 2" written as "else"
ApplyTraffic_ElseDown(traffic, action) ==
  IF action = UP THEN FMin(FOne, FAdd(traffic, FTenth))
  ELSE FMax(FZero, FSub(traffic, FTenth))

\* traffic after an action: 0 HOLD, 1 UP (+0.1), 2 DOWN (-0.1)
ApplyTraffic(traffic, action) ==
  IF action = UP THEN FMin(FOne, FAdd(traffic, FTenth))
  ELSE IF action = DOWN THEN FMax(FZero, FSub(traffic, FTenth))
  ELSE traffic

-----------------------------------------------------------------------------
(* CanaryController *)

VARIABLES
  mode,             \* "online": controller.py runs; "sim": an evaluation driver runs
  c_pc,             \* position of CanaryController.run
  c_status,         \* RUNNING / ROLLED_BACK / SUCCEEDED / TIMED_OUT (how run's loop ended),
                    \* ABORTED (an exception left run), INTERRUPTED (KeyboardInterrupt did)
  c_model,          \* whether self.model holds a loaded policy (None until load_model)
  c_step_count,     \* self.step_count
  c_traffic_v2,     \* self.traffic_v2
  c_obs_buffer,     \* self._obs_buffer
  c_metrics,        \* error_rate_v2, latency_p95, total_error_rate, e2e_latency of run
  c_action,         \* action returned by model.predict
  c_new_traffic,    \* new_traffic of run
  c_events,         \* what the current step has done so far, in order
  c_predict_calls,  \* number of model.predict calls
  c_reset_calls,    \* number of POST /metrics/reset calls
  c_reset_ok,       \* whether the latest POST /metrics/reset went through
  c_poll,           \* what the latest get_observation was answered with
  c_sink_calls,     \* number of patch_namespaced_ingress calls
  c_sink_last,      \* canary weight of the latest patch (-1: none yet)
  ingress_weight    \* canary-weight annotation held by the ingress (-1: not set by this run)

ctl_vars == <<c_pc, c_status, c_model, c_step_count, c_traffic_v2, c_obs_buffer, c_metrics,
              c_action, c_new_traffic, c_events, c_predict_calls, c_reset_calls,
              c_reset_ok, c_poll, c_sink_calls, c_sink_last, ingress_weight>>

VARIABLES
  e_pc,           \* position of the driver: "reset", "loop", "done"
  e_step_count,   \* env.step_count
  e_traffic_v2,   \* env.traffic_v2
  e_obs_buffer,   \* env._obs_buffer
  e_base,         \* env.base_cluster_error, base_cluster_latency, base_request_rate
  e_terminated,   \* terminated, as returned by the last step
  e_truncated,    \* truncated, as returned by the last step
  e_action,       \* action, the policy's decision passed to the last step
  e_info,         \* info returned by the last step (the fields the drivers read)
  e_branches      \* which ending branches of the last step were taken

env_vars == <<e_pc, e_step_count, e_traffic_v2, e_obs_buffer, e_base,
              e_terminated, e_truncated, e_action, e_info, e_branches>>

VARIABLES
  p_pc,           \* rule_based_policy on its own: "idle", "call", "returned", "raised"
  p_window,       \* window_size of the env whose observation is passed
  p_obs,          \* obs, the flattened window passed to rule_based_policy
  p_m,            \* m, the slice rule_based_policy took as the latest metrics
  p_values,       \* values of _trend for the local and the cluster error
  p_action        \* the action returned

pol_vars == <<p_pc, p_window, p_obs, p_m, p_values, p_action>>

VARIABLES
  s_sess,         \* the CanaryEnv instances of the process, by session
  g_rng,          \* the process-wide generator behind np.random.*: draws made so far
  s_log,          \* per session: the actions passed and the info returned since reset
  s_op            \* the call made last: which method, on which session

sim_vars == <<s_sess, g_rng, s_log, s_op>>

VARIABLES
  t_twin          \* CanaryController.run and the loop over CanaryEnv, side by side

twin_vars == <<t_twin>>

VARIABLES
  a_pc,             \* "off": no demo app in the run; "serving": app.run is serving
  a_kind,           \* which app: "canary" (canary/app.py) or "stable" (stable/app.py)
  a_request_count,  \* request_count
  a_error_count,    \* error_count
  a_total_latency,  \* total_latency
  a_latency_values, \* latency_values (canary only)
  a_req,            \* the /api/process requests, in order of arrival: position of each
  a_served          \* the latest reply of a metrics endpoint, and the poll it answers

app_vars == <<a_pc, a_kind, a_request_count, a_error_count, a_total_latency,
              a_latency_values, a_req, a_served>>

ext_vars == <<pol_vars, sim_vars, twin_vars, app_vars>>

None == [none |-> TRUE]

\* an empty dict: no key of the reply present, every query failed
NoReply == [k \in {} |-> 0]

\* no get_observation call yet
NoPoll == [canary |-> None, cluster |-> [none |-> TRUE]]

\* What one get_observation call can be answered with: the canary's /metrics
\* reply (None: the poll failed or was not a 200) and the values of the three
\* Prometheus queries (a missing key: that query returned None).
PollCases == <<
  \* healthy, just under the success limits, every poll answered
  [canary  |-> [error_rate |-> 19, latency_p95_ms |-> 199, avg_latency_ms |-> 250,
                cpu_usage |-> 200, memory_usage |-> 300],
   cluster |-> [total_error_rate |-> 29, end_to_end_latency |-> 300,
                request_rate |-> 100]],
  \* healthy but for the latency, which is on the SLO; no p95, cpu or memory in
  \* the reply; the latency quantile query answered NaN, the rate query failed
  [canary  |-> [error_rate |-> 19, avg_latency_ms |-> 200],
   cluster |-> [total_error_rate |-> 29, end_to_end_latency |-> NaN]],
  \* on the rollback thresholds, other values outside their nominal ranges
  [canary  |-> [error_rate |-> 40, latency_p95_ms |-> 100000,
                cpu_usage |-> 5000, memory_usage |-> -20],
   cluster |-> [total_error_rate |-> 60, end_to_end_latency |-> 100000,
                request_rate |-> 99999]],
  \* local error critical
  [canary  |-> [error_rate |-> 41, latency_p95_ms |-> 120, cpu_usage |-> 200,
                memory_usage |-> 300],
   cluster |-> [total_error_rate |-> 10]],
  \* cluster error critical, the canary poll failed
  [canary  |-> None,
   cluster |-> [total_error_rate |-> 61, end_to_end_latency |-> 700,
                request_rate |-> 50]],
  \* both critical
  [canary  |-> [error_rate |-> 900, latency_p95_ms |-> 120],
   cluster |-> [total_error_rate |-> 500]]
>>

\* response.json(): the document of a JSON body; any other body raises
CtlResponseJson(response) ==
  IF "document" \in DOMAIN response.body
  THEN [raised |-> FALSE, value |-> response.body.document]
  ELSE [raised |-> TRUE]

\* get_canary_metrics, given what requests.get came back with (None: it raised)
CtlGetCanaryMetrics(response) ==
  IF response = None
  THEN None
  ELSE IF response.status_code = 200
       THEN LET parsed == CtlResponseJson(response)
            IN  IF parsed.raised THEN None ELSE parsed.value
       ELSE None

\* mutant: avg_latency_ms is preferred to latency_p95_ms
CtlLocal_AvgFirst(canary) ==
  IF canary = None
  THEN [error_rate_v2 |-> 0, latency_p95_v2 |-> 100, cpu_usage_v2 |-> 50,
        memory_usage_v2 |-> 100]
  ELSE [error_rate_v2   |-> Get(canary, "error_rate", 0),
        latency_p95_v2  |-> Get(canary, "avg_latency_ms",
                                Get(canary, "latency_p95_ms", 100)),
        cpu_usage_v2    |-> Get(canary, "cpu_usage", 50),
        memory_usage_v2 |-> Get(canary, "memory_usage", 100)]

\* get_observation: the local values used
CtlLocal(canary) ==
  IF canary = None
  THEN [error_rate_v2 |-> 0, latency_p95_v2 |-> 100, cpu_usage_v2 |-> 50,
        memory_usage_v2 |-> 100]
  ELSE [error_rate_v2   |-> Get(canary, "error_rate", 0),
        latency_p95_v2  |-> Get(canary, "latency_p95_ms",
                                Get(canary, "avg_latency_ms", 100)),
        cpu_usage_v2    |-> Get(canary, "cpu_usage", 50),
        memory_usage_v2 |-> Get(canary, "memory_usage", 100)]

\* mutant: a failed query counts as 0 ("val or 0.0")
CtlCluster_ZeroDefaults(reply) ==
  [total_error_rate   |-> Get(reply, "total_error_rate", 0),
   end_to_end_latency |-> Get(reply, "end_to_end_latency", 0),
   request_rate       |-> Get(reply, "request_rate", 0)]

\* get_cluster_metrics
CtlCluster(reply) ==
  [total_error_rate   |-> Get(reply, "total_error_rate", 5),
   end_to_end_latency |-> Get(reply, "end_to_end_latency", 250),
   request_rate       |-> Get(reply, "request_rate", 100)]

\* CanaryController._build_single_obs (request_rate already normalized)
CtlBuildSingleObs(error_rate_v2, latency_p95_v2, cpu_usage_v2, memory_usage_v2, total_error_rate, end_to_end_latency, request_rate, traffic) ==
  << Clip(error_rate_v2, 0, 1000),
     Clip(Ratio(latency_p95_v2, MAX_LOCAL_LATENCY), 0, 1000),
     Clip(cpu_usage_v2, 0, 1000),
     Clip(memory_usage_v2, 0, 1000),
     Clip(total_error_rate, 0, 1000),
     Clip(Ratio(end_to_end_latency, MAX_E2E_LATENCY), 0, 1000),
     Clip(request_rate, 0, 1000),
     F32(FClip01(traffic)) >>

\* _build_single_obs() with its default arguments
CtlZeroObs(traffic) == CtlBuildSingleObs(0, 100, 50, 100, 5, 250, 500, traffic)

\* min(raw_rps / 200.0, 1.0): Python's min returns its first argument unless
\* the second is less, so min(nan, 1.0) is nan
CtlNormRps(raw_rps) ==
  LET r == Ratio(raw_rps, MAX_RPS) IN IF Lt(1000, r) THEN 1000 ELSE r

\* mutant: the patch adds the weight to the one the ingress holds
CtlUpdateIngress_Accumulates(traffic, ok) ==
  LET canary_weight == FTimes100Int(traffic) IN
  /\ c_sink_calls' = c_sink_calls + 1
  /\ c_sink_last' = canary_weight
  /\ ingress_weight' = IF ~ok THEN ingress_weight
                       ELSE IF ingress_weight = -1 THEN canary_weight
                       ELSE ingress_weight + canary_weight

\* _update_ingress_weights: the weight is computed and the patch attempted;
\* a failed patch is logged and leaves the ingress as it was
CtlUpdateIngress(traffic, ok) ==
  LET canary_weight == FTimes100Int(traffic) IN
  /\ c_sink_calls' = c_sink_calls + 1
  /\ c_sink_last' = canary_weight
  /\ ingress_weight' = IF ok THEN canary_weight ELSE ingress_weight

CtlLoadModel ==
  /\ mode = "online" /\ c_pc = "load"
  /\ c_model' = TRUE
  /\ c_pc' = "reset_metrics"
  /\ UNCHANGED <<env_vars, ext_vars, mode, c_poll, c_reset_ok, c_status, c_step_count, c_traffic_v2, c_obs_buffer, c_metrics,
                 c_action, c_new_traffic, c_events, c_predict_calls, c_reset_calls,
                 c_sink_calls, c_sink_last, ingress_weight>>

\* mutant: load_model logs the exception and returns
CtlLoadModelFails_Swallowed ==
  /\ mode = "online" /\ c_pc = "load"
  /\ c_pc' = "reset_metrics"
  /\ UNCHANGED <<env_vars, ext_vars, mode, c_model, c_poll, c_reset_ok, c_status, c_step_count, c_traffic_v2, c_obs_buffer, c_metrics,
                 c_action, c_new_traffic, c_events, c_predict_calls, c_reset_calls,
                 c_sink_calls, c_sink_last, ingress_weight>>

\* load_model: DQN.load raises; the except clause logs and re-raises, and
\* run has no handler, so the exception leaves run
CtlLoadModelFails ==
  /\ mode = "online" /\ c_pc = "load"
  /\ c_pc' = "aborted"
  /\ c_status' = "ABORTED"
  /\ UNCHANGED <<env_vars, ext_vars, mode, c_model, c_poll, c_reset_ok, c_step_count, c_traffic_v2, c_obs_buffer, c_metrics,
                 c_action, c_new_traffic, c_events, c_predict_calls, c_reset_calls,
                 c_sink_calls, c_sink_last, ingress_weight>>

\* mutant: a failed reset ends the run
CtlResetCanaryMetrics_FailureAborts(reset_oks) ==
  /\ mode = "online" /\ c_pc = "reset_metrics"
  /\ c_reset_calls' = c_reset_calls + 1
  /\ c_reset_ok' \in reset_oks
  /\ c_pc' = IF c_reset_ok' THEN "fill" ELSE "aborted"
  /\ c_status' = IF c_reset_ok' THEN c_status ELSE "ABORTED"
  /\ UNCHANGED <<env_vars, ext_vars, mode, c_model, c_poll, c_step_count, c_traffic_v2, c_obs_buffer, c_metrics,
                 c_action, c_new_traffic, c_events, c_predict_calls,
                 c_sink_calls, c_sink_last, ingress_weight>>

\* reset_canary_metrics: the POST is attempted once; an exception is logged
CtlResetCanaryMetrics(reset_oks) ==
  /\ mode = "online" /\ c_pc = "reset_metrics"
  /\ c_reset_calls' = c_reset_calls + 1
  /\ c_reset_ok' \in reset_oks
  /\ c_pc' = "fill"
  /\ UNCHANGED <<env_vars, ext_vars, mode, c_model, c_poll, c_status, c_step_count, c_traffic_v2, c_obs_buffer, c_metrics,
                 c_action, c_new_traffic, c_events, c_predict_calls,
                 c_sink_calls, c_sink_last, ingress_weight>>

\* mutant: "for _ in range(self.window_size - 1)"
CtlFillWindow_OneShort ==
  /\ mode = "online" /\ c_pc = "fill"
  /\ c_obs_buffer' = [i \in 1..(WindowSize - 1) |-> CtlZeroObs(c_traffic_v2)]
  /\ c_pc' = "loop"
  /\ UNCHANGED <<env_vars, ext_vars, mode, c_model, c_poll, c_reset_ok, c_status, c_step_count, c_traffic_v2, c_metrics,
                 c_action, c_new_traffic, c_events, c_predict_calls, c_reset_calls,
                 c_sink_calls, c_sink_last, ingress_weight>>

\* run, lines 270-274: clear the buffer and fill it with window_size zero_obs
CtlFillWindow ==
  /\ mode = "online" /\ c_pc = "fill"
  /\ c_obs_buffer' = [i \in 1..WindowSize |-> CtlZeroObs(c_traffic_v2)]
  /\ c_pc' = "loop"
  /\ UNCHANGED <<env_vars, ext_vars, mode, c_model, c_poll, c_reset_ok, c_status, c_step_count, c_traffic_v2, c_metrics,
                 c_action, c_new_traffic, c_events, c_predict_calls, c_reset_calls,
                 c_sink_calls, c_sink_last, ingress_weight>>

\* mutant: "while self.step_count <= self.max_steps"
CtlLoopEnter_OffByOne ==
  /\ mode = "online" /\ c_pc = "loop"
  /\ c_step_count <= MaxSteps
  /\ c_step_count' = c_step_count + 1
  /\ c_events' = <<"inc">>
  /\ c_pc' = "observe"
  /\ UNCHANGED <<env_vars, ext_vars, mode, c_model, c_poll, c_reset_ok, c_status, c_traffic_v2, c_obs_buffer, c_metrics,
                 c_action, c_new_traffic, c_predict_calls, c_reset_calls,
                 c_sink_calls, c_sink_last, ingress_weight>>

\* while self.step_count < self.max_steps: self.step_count += 1
CtlLoopEnter ==
  /\ mode = "online" /\ c_pc = "loop"
  /\ c_step_count < MaxSteps
  /\ c_step_count' = c_step_count + 1
  /\ c_events' = <<"inc">>
  /\ c_pc' = "observe"
  /\ UNCHANGED <<env_vars, ext_vars, mode, c_model, c_poll, c_reset_ok, c_status, c_traffic_v2, c_obs_buffer, c_metrics,
                 c_action, c_new_traffic, c_predict_calls, c_reset_calls,
                 c_sink_calls, c_sink_last, ingress_weight>>

\* mutant: leaving the loop on the step limit rolls the canary back
CtlLoopExit_RollsBack ==
  /\ mode = "online" /\ c_pc = "loop"
  /\ ~(c_step_count < MaxSteps)
  /\ c_status' = "TIMED_OUT"
  /\ c_traffic_v2' = FZero
  /\ CtlUpdateIngress(c_traffic_v2', TRUE)
  /\ c_pc' = "done"
  /\ UNCHANGED <<env_vars, ext_vars, mode, c_model, c_poll, c_reset_ok, c_step_count, c_obs_buffer, c_metrics,
                 c_action, c_new_traffic, c_events, c_predict_calls, c_reset_calls>>

\* the while condition is false: the loop is left without a break
CtlLoopExit ==
  /\ mode = "online" /\ c_pc = "loop"
  /\ ~(c_step_count < MaxSteps)
  /\ c_status' = "TIMED_OUT"
  /\ c_pc' = "done"
  /\ UNCHANGED <<env_vars, ext_vars, mode, c_model, c_poll, c_reset_ok, c_step_count, c_traffic_v2, c_obs_buffer, c_metrics,
                 c_action, c_new_traffic, c_events, c_predict_calls, c_reset_calls,
                 c_sink_calls, c_sink_last, ingress_weight>>

CtlGetObservation(polls) ==
  /\ mode = "online" /\ c_pc = "observe"
  /\ \E i \in 1..Len(polls) :
       LET local   == CtlLocal(polls[i].canary)
           cluster == CtlCluster(polls[i].cluster)
           single  == CtlBuildSingleObs(
                        local.error_rate_v2, local.latency_p95_v2,
                        local.cpu_usage_v2, local.memory_usage_v2,
                        cluster.total_error_rate, cluster.end_to_end_latency,
                        CtlNormRps(cluster.request_rate), c_traffic_v2)
       IN  /\ c_obs_buffer' = DequeAppend(c_obs_buffer, single, WindowSize)
           /\ c_metrics' = [error_rate_v2    |-> local.error_rate_v2,
                            latency_p95      |-> local.latency_p95_v2,
                            total_error_rate |-> cluster.total_error_rate,
                            e2e_latency      |-> cluster.end_to_end_latency]
           /\ c_poll' = polls[i]
  /\ c_events' = c_events \o <<"snapshot", "push">>
  /\ c_pc' = "predict"
  /\ UNCHANGED <<env_vars, ext_vars, mode, c_model, c_reset_ok, c_status, c_step_count, c_traffic_v2,
                 c_action, c_new_traffic, c_predict_calls, c_reset_calls,
                 c_sink_calls, c_sink_last, ingress_weight>>

\* obs of get_observation: the flattened window handed to model.predict
CtlObs == Concat(c_obs_buffer)

\* action, _ = self.model.predict(obs, deterministic=True): any policy
CtlPredict ==
  /\ mode = "online" /\ c_pc = "predict"
  /\ \E a \in Actions : c_action' = a
  /\ c_predict_calls' = c_predict_calls + 1
  /\ c_events' = Append(c_events, "policy")
  /\ c_pc' = "apply"
  /\ UNCHANGED <<env_vars, ext_vars, mode, c_model, c_poll, c_reset_ok, c_status, c_step_count, c_traffic_v2, c_obs_buffer, c_metrics,
                 c_new_traffic, c_reset_calls,
                 c_sink_calls, c_sink_last, ingress_weight>>

\* self.model.predict raises: run has no handler around line 281, so the
\* exception leaves run
CtlPredictRaises ==
  /\ mode = "online" /\ c_pc = "predict"
  /\ c_predict_calls' = c_predict_calls + 1
  /\ c_events' = Append(c_events, "policy")
  /\ c_pc' = "aborted"
  /\ c_status' = "ABORTED"
  /\ UNCHANGED <<env_vars, ext_vars, mode, c_model, c_poll, c_reset_ok, c_step_count, c_traffic_v2, c_obs_buffer, c_metrics,
                 c_action, c_new_traffic, c_reset_calls,
                 c_sink_calls, c_sink_last, ingress_weight>>

\* self.model.predict returns an integer outside {0,1,2}
InvalidActions == {-4, -1, 3}

CtlPredictInvalid ==
  /\ mode = "online" /\ c_pc = "predict"
  /\ \E a \in InvalidActions : c_action' = a
  /\ c_predict_calls' = c_predict_calls + 1
  /\ c_events' = Append(c_events, "policy")
  /\ c_pc' = "apply"
  /\ UNCHANGED <<env_vars, ext_vars, mode, c_model, c_poll, c_reset_ok, c_status, c_step_count, c_traffic_v2, c_obs_buffer, c_metrics,
                 c_new_traffic, c_reset_calls,
                 c_sink_calls, c_sink_last, ingress_weight>>

\* action_names of apply_action, and the indices a Python list of that
\* length accepts (negative ones count from the end)
ActionNames == <<"HOLD", "UP", "DOWN">>
ActionNameIndex == (0 - Len(ActionNames))..(Len(ActionNames) - 1)

\* apply_action: action_names[action] raises IndexError before traffic_v2
\* is touched; neither apply_action nor run handles it
CtlApplyActionRaises ==
  /\ mode = "online" /\ c_pc = "apply"
  /\ c_action \notin ActionNameIndex
  /\ c_pc' = "aborted"
  /\ c_status' = "ABORTED"
  /\ UNCHANGED <<env_vars, ext_vars, mode, c_model, c_poll, c_reset_ok, c_step_count, c_traffic_v2, c_obs_buffer, c_metrics,
                 c_action, c_new_traffic, c_events, c_predict_calls, c_reset_calls,
                 c_sink_calls, c_sink_last, ingress_weight>>

\* mutant: the ingress is patched before traffic_v2 is updated
CtlApplyAction_SinkFirst(sink_oks) ==
  /\ mode = "online" /\ c_pc = "apply"
  /\ \E ok \in sink_oks : CtlUpdateIngress(c_traffic_v2, ok)
  /\ c_traffic_v2' = ApplyTraffic(c_traffic_v2, c_action)
  /\ c_new_traffic' = c_traffic_v2'
  /\ c_events' = c_events \o <<"sink", "apply">>
  /\ c_pc' = "check"
  /\ UNCHANGED <<env_vars, ext_vars, mode, c_model, c_poll, c_reset_ok, c_status, c_step_count, c_obs_buffer, c_metrics,
                 c_action, c_predict_calls, c_reset_calls>>

\* mutant: traffic_v2 is advanced only when the ingress patch went through
CtlApplyAction_KeepOnSinkFailure(sink_oks) ==
  /\ mode = "online" /\ c_pc = "apply"
  /\ \E ok \in sink_oks :
       /\ c_traffic_v2' = IF ok THEN ApplyTraffic(c_traffic_v2, c_action)
                          ELSE c_traffic_v2
       /\ CtlUpdateIngress(ApplyTraffic(c_traffic_v2, c_action), ok)
  /\ c_new_traffic' = c_traffic_v2'
  /\ c_events' = c_events \o <<"apply", "sink">>
  /\ c_pc' = "check"
  /\ UNCHANGED <<env_vars, ext_vars, mode, c_model, c_poll, c_reset_ok, c_status, c_step_count, c_obs_buffer, c_metrics,
                 c_action, c_predict_calls, c_reset_calls>>

\* new_traffic = self.apply_action(action)
CtlApplyAction(sink_oks) ==
  /\ mode = "online" /\ c_pc = "apply"
  /\ c_action \in ActionNameIndex
  /\ c_traffic_v2' = ApplyTraffic(c_traffic_v2, c_action)
  /\ \E ok \in sink_oks : CtlUpdateIngress(c_traffic_v2', ok)
  /\ c_new_traffic' = c_traffic_v2'
  /\ c_events' = c_events \o <<"apply", "sink">>
  /\ c_pc' = "check"
  /\ UNCHANGED <<env_vars, ext_vars, mode, c_model, c_poll, c_reset_ok, c_status, c_step_count, c_obs_buffer, c_metrics,
                 c_action, c_predict_calls, c_reset_calls>>

\* the success condition of run, lines 299-302
CtlSuccess(m, new_traffic) ==
  /\ FLeq(FOne, new_traffic)
  /\ Lt(m.error_rate_v2, CTL_OK_LOCAL)
  /\ Lt(m.latency_p95, SLO_LATENCY)
  /\ Lt(m.total_error_rate, CTL_OK_CLUSTER)

\* mutant: the cluster rollback check is missing
CtlOutcome_NoClusterCheck(m, new_traffic) ==
  IF Gt(m.error_rate_v2, CTL_CRIT_LOCAL) THEN "ROLLED_BACK"
  ELSE IF CtlSuccess(m, new_traffic) THEN "SUCCEEDED"
  ELSE "RUNNING"

\* mutant: no rollback checks at all
CtlOutcome_NoRollback(m, new_traffic) ==
  IF CtlSuccess(m, new_traffic) THEN "SUCCEEDED" ELSE "RUNNING"

\* mutant: "new_traffic > 1.0"
CtlOutcome_StrictTraffic(m, new_traffic) ==
  IF Gt(m.error_rate_v2, CTL_CRIT_LOCAL) THEN "ROLLED_BACK"
  ELSE IF Gt(m.total_error_rate, CTL_CRIT_CLUSTER) THEN "ROLLED_BACK"
  ELSE IF CtlSuccess(m, new_traffic) /\ FLess(FOne, new_traffic) THEN "SUCCEEDED"
  ELSE "RUNNING"

\* mutant: "latency_p95 <= self.slo_latency"
CtlOutcome_LatencyLeq(m, new_traffic) ==
  IF Gt(m.error_rate_v2, CTL_CRIT_LOCAL) THEN "ROLLED_BACK"
  ELSE IF Gt(m.total_error_rate, CTL_CRIT_CLUSTER) THEN "ROLLED_BACK"
  ELSE IF /\ FLeq(FOne, new_traffic)
          /\ Lt(m.error_rate_v2, CTL_OK_LOCAL)
          /\ ~Gt(m.latency_p95, SLO_LATENCY)
          /\ Lt(m.total_error_rate, CTL_OK_CLUSTER) THEN "SUCCEEDED"
  ELSE "RUNNING"

\* the termination checks of run, lines 284-311
CtlOutcome(m, new_traffic) ==
  IF Gt(m.error_rate_v2, CTL_CRIT_LOCAL) THEN "ROLLED_BACK"
  ELSE IF Gt(m.total_error_rate, CTL_CRIT_CLUSTER) THEN "ROLLED_BACK"
  ELSE IF CtlSuccess(m, new_traffic) THEN "SUCCEEDED"
  ELSE "RUNNING"

\* mutant: no break after the success check
CtlCheck_NoBreakOnSuccess(sink_oks) ==
  /\ mode = "online" /\ c_pc = "check"
  /\ LET outcome == CtlOutcome(c_metrics, c_new_traffic) IN
     /\ c_status' = outcome
     /\ IF outcome = "ROLLED_BACK"
        THEN /\ c_traffic_v2' = FZero
             /\ \E ok \in sink_oks : CtlUpdateIngress(c_traffic_v2', ok)
             /\ c_events' = c_events \o <<"check", "rollback">>
             /\ c_pc' = "done"
        ELSE /\ c_events' = Append(c_events, "check")
             /\ c_pc' = "sleep"
             /\ UNCHANGED <<c_traffic_v2, c_sink_calls, c_sink_last, ingress_weight>>
  /\ UNCHANGED <<env_vars, ext_vars, mode, c_model, c_poll, c_reset_ok, c_step_count, c_obs_buffer, c_metrics,
                 c_action, c_new_traffic, c_predict_calls, c_reset_calls>>

CtlCheck(sink_oks) ==
  /\ mode = "online" /\ c_pc = "check"
  /\ LET outcome == CtlOutcome(c_metrics, c_new_traffic) IN
     /\ c_status' = outcome
     /\ IF outcome = "ROLLED_BACK"
        THEN /\ c_traffic_v2' = FZero
             /\ \E ok \in sink_oks : CtlUpdateIngress(c_traffic_v2', ok)
             /\ c_events' = c_events \o <<"check", "rollback">>
             /\ c_pc' = "done"
        ELSE /\ c_events' = Append(c_events, "check")
             /\ c_pc' = IF outcome = "SUCCEEDED" THEN "done" ELSE "sleep"
             /\ UNCHANGED <<c_traffic_v2, c_sink_calls, c_sink_last, ingress_weight>>
  /\ UNCHANGED <<env_vars, ext_vars, mode, c_model, c_poll, c_reset_ok, c_step_count, c_obs_buffer, c_metrics,
                 c_action, c_new_traffic, c_predict_calls, c_reset_calls>>

\* time.sleep(STEP_INTERVAL)
CtlSleep ==
  /\ mode = "online" /\ c_pc = "sleep"
  /\ c_pc' = "loop"
  /\ UNCHANGED <<env_vars, ext_vars, mode, c_model, c_poll, c_reset_ok, c_status, c_step_count, c_traffic_v2, c_obs_buffer, c_metrics,
                 c_action, c_new_traffic, c_events, c_predict_calls, c_reset_calls,
                 c_sink_calls, c_sink_last, ingress_weight>>

\* A stop signal arrives during time.sleep(STEP_INTERVAL). The controller
\* installs no signal handler and run has no try around the sleep, so what
\* follows is the runtime's default: SIGINT raises KeyboardInterrupt out of
\* time.sleep and leaves run; SIGTERM ends a process too, unless the process
\* is the init of its container (the controller loads the in-cluster
\* configuration first), where a signal without a handler is not delivered
\* and the sleep runs to its end.
CtlStopSignal ==
  /\ mode = "online" /\ c_pc = "sleep"
  /\ c_events[Len(c_events)] # "stop_signal"
  /\ c_events' = Append(c_events, "stop_signal")
  /\ \/ c_pc' = "aborted" /\ c_status' = "INTERRUPTED"
     \/ c_pc' = c_pc /\ c_status' = c_status
  /\ UNCHANGED <<env_vars, ext_vars, mode, c_model, c_poll, c_reset_ok, c_step_count, c_traffic_v2, c_obs_buffer, c_metrics,
                 c_action, c_new_traffic, c_predict_calls, c_reset_calls,
                 c_sink_calls, c_sink_last, ingress_weight>>

CtlInit ==
  /\ c_pc = "load"
  /\ c_status = "RUNNING"
  /\ c_model = FALSE
  /\ c_step_count = 0
  /\ c_traffic_v2 = FZero
  /\ c_obs_buffer = <<>>
  /\ c_metrics = [error_rate_v2 |-> 0, latency_p95 |-> 0, total_error_rate |-> 0,
                  e2e_latency |-> 0]
  /\ c_action = HOLD
  /\ c_new_traffic = FZero
  /\ c_events = <<>>
  /\ c_predict_calls = 0
  /\ c_reset_calls = 0
  /\ c_reset_ok = TRUE
  /\ c_poll = NoPoll
  /\ c_sink_calls = 0
  /\ c_sink_last = -1
  /\ ingress_weight = -1

-----------------------------------------------------------------------------
(* CanaryEnv and the loop that drives it (evaluate_rule_based, evaluate.py) *)

ENV_SLO_LATENCY   == 200     \* self.slo_latency
ENV_BASE_LATENCY  == 100     \* self.base_latency
ENV_MAX_LOCAL_LAT == 500     \* max_local_latency
ENV_MAX_E2E_LAT   == 1000    \* max_e2e_latency
ENV_CRIT_LOCAL    == 40      \* error_rate_v2 > 0.04
ENV_CRIT_CLUSTER  == 60      \* total_error_rate > 0.06
ENV_OK_LOCAL      == 20      \* error_rate_v2 < 0.02
ENV_OK_CLUSTER    == 30      \* total_error_rate < 0.03

\* The metric values one step's _simulate_* calls can return.  Each adds
\* Gaussian noise to a scenario-dependent base and clips the sum (rates to
\* [0,1], latencies to [0,inf)), so a step can return any values in those
\* ranges; these are the representatives used.
EnvCases == <<
  \* healthy, just under the success limits
  [error_rate_v2 |-> 19, latency_p95_v2 |-> 199, cpu_usage_v2 |-> 200,
   memory_usage_v2 |-> 300, total_error_rate |-> 29, end_to_end_latency |-> 300,
   request_rate |-> 600],
  \* healthy but for the latency, which is on the SLO
  [error_rate_v2 |-> 19, latency_p95_v2 |-> 200, cpu_usage_v2 |-> 200,
   memory_usage_v2 |-> 300, total_error_rate |-> 29, end_to_end_latency |-> 300,
   request_rate |-> 600],
  \* on the rollback thresholds, latencies far above the normalization maxima
  [error_rate_v2 |-> 40, latency_p95_v2 |-> 100000, cpu_usage_v2 |-> 1000,
   memory_usage_v2 |-> 1000, total_error_rate |-> 60, end_to_end_latency |-> 100000,
   request_rate |-> 0],
  \* local error critical
  [error_rate_v2 |-> 41, latency_p95_v2 |-> 120, cpu_usage_v2 |-> 400,
   memory_usage_v2 |-> 300, total_error_rate |-> 10, end_to_end_latency |-> 300,
   request_rate |-> 600],
  \* cluster error critical
  [error_rate_v2 |-> 5, latency_p95_v2 |-> 120, cpu_usage_v2 |-> 200,
   memory_usage_v2 |-> 300, total_error_rate |-> 61, end_to_end_latency |-> 700,
   request_rate |-> 300],
  \* both critical
  [error_rate_v2 |-> 1000, latency_p95_v2 |-> 120, cpu_usage_v2 |-> 1000,
   memory_usage_v2 |-> 300, total_error_rate |-> 1000, end_to_end_latency |-> 700,
   request_rate |-> 300]
>>

\* np.random.uniform draws of reset: base_cluster_error in [0.003, 0.008],
\* base_cluster_latency in [200, 300], base_request_rate in [0.4, 0.7]
EnvBaseDraws == {
  [cluster_error |-> 3, cluster_latency |-> 200, request_rate |-> 400],
  [cluster_error |-> 8, cluster_latency |-> 300, request_rate |-> 700] }

\* CanaryEnv._build_single_obs with all arguments given
EnvBuildSingleObs(error_rate_v2, latency_p95_v2, cpu_usage_v2, memory_usage_v2, total_error_rate, end_to_end_latency, request_rate, traffic) ==
  << Clip(error_rate_v2, 0, 1000),
     Clip((latency_p95_v2 * 1000) \div ENV_MAX_LOCAL_LAT, 0, 1000),
     Clip(cpu_usage_v2, 0, 1000),
     Clip(memory_usage_v2, 0, 1000),
     Clip(total_error_rate, 0, 1000),
     Clip((end_to_end_latency * 1000) \div ENV_MAX_E2E_LAT, 0, 1000),
     Clip(request_rate, 0, 1000),
     F32(FClip01(traffic)) >>

\* _build_single_obs(): the None arguments take the env's base values
EnvZeroObs(base, traffic) ==
  EnvBuildSingleObs(0, ENV_BASE_LATENCY, 50, 100, base.cluster_error,
                    base.cluster_latency, base.request_rate, traffic)

EnvNoInfo == [traffic_v2 |-> FZero, error_rate_v2 |-> 0, latency_p95_v2 |-> 0,
              total_error_rate |-> 0]

\* the ending branches of CanaryEnv.step, lines 153-175
EnvBranches(m, traffic, step_count) ==
  (IF m.error_rate_v2 > ENV_CRIT_LOCAL THEN {"crit_local"} ELSE {})
  \cup (IF m.total_error_rate > ENV_CRIT_CLUSTER THEN {"crit_cluster"} ELSE {})
  \cup (IF step_count >= MaxSteps THEN {"max_steps"} ELSE {})
  \cup (IF /\ FLeq(FOne, traffic)
           /\ m.error_rate_v2 < ENV_OK_LOCAL
           /\ m.latency_p95_v2 < ENV_SLO_LATENCY
           /\ m.total_error_rate < ENV_OK_CLUSTER THEN {"success"} ELSE {})

\* for episode in range(...): obs, info = env.reset(); terminated = truncated = False
DriverReset ==
  /\ mode = "sim" /\ e_pc = "reset"
  /\ e_step_count' = 0
  /\ e_traffic_v2' = FZero
  /\ \E b \in EnvBaseDraws :
       /\ e_base' = b
       /\ e_obs_buffer' = [i \in 1..WindowSize |-> EnvZeroObs(b, e_traffic_v2')]
  /\ e_terminated' = FALSE
  /\ e_truncated' = FALSE
  /\ e_info' = EnvNoInfo
  /\ e_branches' = {}
  /\ e_pc' = "loop"
  /\ UNCHANGED e_action
  /\ UNCHANGED <<mode, ext_vars, ctl_vars>>

\* while not (terminated or truncated): action = policy(obs); env.step(action)
DriverStep(cases) ==
  /\ mode = "sim" /\ e_pc = "loop"
  /\ ~(e_terminated \/ e_truncated)
  /\ \E action \in Actions, i \in 1..Len(cases) :
       \E traffic \in {ApplyTraffic(e_traffic_v2, action)} :
         LET m        == cases[i]
             single   == EnvBuildSingleObs(
                           m.error_rate_v2, m.latency_p95_v2, m.cpu_usage_v2,
                           m.memory_usage_v2, m.total_error_rate,
                           m.end_to_end_latency, m.request_rate, traffic)
             branches == EnvBranches(m, traffic, e_step_count + 1)
         IN  /\ e_step_count' = e_step_count + 1
             /\ e_action' = action
             /\ e_traffic_v2' = traffic
             /\ e_obs_buffer' = DequeAppend(e_obs_buffer, single, WindowSize)
             /\ e_branches' = branches
             /\ e_terminated' =
                  (e_branches' \cap {"crit_local", "crit_cluster", "success"} # {})
             /\ e_truncated' = ("max_steps" \in e_branches')
             /\ e_info' = [traffic_v2 |-> traffic, error_rate_v2 |-> m.error_rate_v2,
                           latency_p95_v2 |-> m.latency_p95_v2,
                           total_error_rate |-> m.total_error_rate]
  /\ UNCHANGED <<mode, ext_vars, ctl_vars, e_pc, e_base>>

\* the while loop is left; another episode follows unless this was the last
\* (num_episodes / args.episodes is any number >= 1)
DriverEpisodeEnd ==
  /\ mode = "sim" /\ e_pc = "loop"
  /\ (e_terminated \/ e_truncated)
  /\ e_pc' \in {"reset", "done"}
  /\ UNCHANGED <<mode, ext_vars, ctl_vars, e_step_count, e_traffic_v2, e_obs_buffer,
                 e_base, e_terminated, e_truncated, e_action, e_info, e_branches>>

\* _get_context_window: the flattened window returned by reset and step
EnvObs == Concat(e_obs_buffer)

\* CanaryEnv.__init__ and the driver before its first episode
EnvInit ==
  /\ e_pc = "reset"
  /\ e_step_count = 0
  /\ e_traffic_v2 = FZero
  /\ e_obs_buffer = <<>>
  /\ e_base = [cluster_error |-> 5, cluster_latency |-> 250, request_rate |-> 500]
  /\ e_terminated = FALSE
  /\ e_truncated = FALSE
  /\ e_action = HOLD
  /\ e_info = EnvNoInfo
  /\ e_branches = {}

-----------------------------------------------------------------------------
(* rule_based_policy (src/rule-based.py) *)

RB_WINDOW_SIZE == 10     \* WINDOW_SIZE
RB_LOOK_BACK   == 5      \* look_back

IDX_ERROR_RATE_V2      == 0
IDX_LATENCY_P95_V2     == 1
IDX_CPU_USAGE_V2       == 2
IDX_MEMORY_USAGE_V2    == 3
IDX_TOTAL_ERROR_RATE   == 4
IDX_END_TO_END_LATENCY == 5
IDX_REQUEST_RATE       == 6
IDX_TRAFFIC_V2         == 7

\* config of rule_based_policy, on the per-mille grid
RB_ERROR_THRESHOLD         == 20     \* "error_threshold": 0.02
RB_CLUSTER_ERROR_THRESHOLD == 25     \* "cluster_error_threshold": 0.025
RB_LATENCY_SLO_NORM        == 400    \* "latency_slo_norm": 0.40
RB_E2E_LATENCY_SLO_NORM    == 500    \* "e2e_latency_slo_norm": 0.50
RB_CPU_THRESHOLD           == 800    \* "cpu_threshold": 0.80
RB_MEMORY_THRESHOLD        == 850    \* "memory_threshold": 0.85
RB_SAFE_ERROR_THRESHOLD    == 10     \* "safe_error_threshold": 0.01
RB_SLOPE_THRESHOLD         == 2      \* "degrading_slope_threshold": 0.002

\* s[a:b] of Python for 0 <= a <= b: the part of s that exists
PySlice(s, a, b) == SubSeq(s, a + 1, IF b < Len(s) THEN b ELSE Len(s))

\* s[i] of Python for i >= 0 raises IndexError
PyIndexError(s, i) == i >= Len(s)

\* _latest_metrics
LatestMetrics(obs, window_size) ==
  LET start == (window_size - 1) * NUM_METRICS
  IN  PySlice(obs, start, start + NUM_METRICS)

\* the time steps _trend reads: range(max(0, window_size - look_back), window_size)
TrendSteps(window_size, look_back) ==
  LET first == IF window_size - look_back > 0 THEN window_size - look_back ELSE 0
  IN  [j \in 1..(window_size - first) |-> first + j - 1]

\* _trend: obs[idx] raises IndexError for an index past the end
TrendRaises(obs, metric_idx, window_size, look_back) ==
  LET ts == TrendSteps(window_size, look_back)
  IN  \E j \in 1..Len(ts) : PyIndexError(obs, ts[j] * NUM_METRICS + metric_idx)

\* values of _trend
TrendValues(obs, metric_idx, window_size, look_back) ==
  LET ts == TrendSteps(window_size, look_back)
  IN  [j \in 1..Len(ts) |-> obs[ts[j] * NUM_METRICS + metric_idx + 1]]

RECURSIVE SumTo(_, _)
\* f[1] + ... + f[n]
SumTo(f, n) == IF n = 0 THEN 0 ELSE f[n] + SumTo(f, n - 1)

\* np.polyfit(x, values, 1)[0] for x = 0..n-1 against a threshold: the
\* least-squares slope is (n Sxy - Sx Sy) / (n Sxx - Sx Sx).  The values are
\* float32 roundings of the grid values, so a slope that is exactly on the
\* threshold on the grid comes out on either side of it ("tie").
SlopeAgainst(values, threshold) ==
  LET n   == Len(values)
      sx  == SumTo([j \in 1..n |-> j - 1], n)
      sxx == SumTo([j \in 1..n |-> (j - 1) * (j - 1)], n)
      sy  == SumTo(values, n)
      sxy == SumTo([j \in 1..n |-> (j - 1) * values[j]], n)
      num == n * sxy - sx * sy
      den == n * sxx - sx * sx
  IN  IF n < 2 THEN (IF 0 > threshold THEN "above" ELSE "below")
      ELSE IF num > threshold * den THEN "above"
      ELSE IF num = threshold * den THEN "tie"
      ELSE "below"

\* _trend(...) > config["degrading_slope_threshold"]; tie_above decides a tie
TrendAbove(values, tie_above) ==
  LET c == SlopeAgainst(values, RB_SLOPE_THRESHOLD)
  IN  c = "above" \/ (c = "tie" /\ tie_above)

\* mutant: the safe-error rule is tried before the latency and saturation rules
RuleBasedRules_SafeFirst(m, error_trend_above, cluster_error_trend_above) ==
  IF Gt(m[IDX_ERROR_RATE_V2 + 1], RB_ERROR_THRESHOLD) THEN DOWN
  ELSE IF Gt(m[IDX_TOTAL_ERROR_RATE + 1], RB_CLUSTER_ERROR_THRESHOLD) THEN DOWN
  ELSE IF error_trend_above THEN HOLD
  ELSE IF cluster_error_trend_above THEN HOLD
  ELSE IF /\ Lt(m[IDX_ERROR_RATE_V2 + 1], RB_SAFE_ERROR_THRESHOLD)
          /\ Lt(m[IDX_TOTAL_ERROR_RATE + 1], RB_SAFE_ERROR_THRESHOLD) THEN UP
  ELSE HOLD

\* the rules of rule_based_policy, lines 79-116, on the metrics m and the
\* two trend verdicts
RuleBasedRules(m, error_trend_above, cluster_error_trend_above) ==
  IF Gt(m[IDX_ERROR_RATE_V2 + 1], RB_ERROR_THRESHOLD) THEN DOWN
  ELSE IF Gt(m[IDX_TOTAL_ERROR_RATE + 1], RB_CLUSTER_ERROR_THRESHOLD) THEN DOWN
  ELSE IF error_trend_above THEN HOLD
  ELSE IF cluster_error_trend_above THEN HOLD
  ELSE IF Gt(m[IDX_LATENCY_P95_V2 + 1], RB_LATENCY_SLO_NORM) THEN HOLD
  ELSE IF Gt(m[IDX_END_TO_END_LATENCY + 1], RB_E2E_LATENCY_SLO_NORM) THEN HOLD
  ELSE IF Gt(m[IDX_CPU_USAGE_V2 + 1], RB_CPU_THRESHOLD) THEN HOLD
  ELSE IF Gt(m[IDX_MEMORY_USAGE_V2 + 1], RB_MEMORY_THRESHOLD) THEN HOLD
  ELSE IF /\ Lt(m[IDX_ERROR_RATE_V2 + 1], RB_SAFE_ERROR_THRESHOLD)
          /\ Lt(m[IDX_TOTAL_ERROR_RATE + 1], RB_SAFE_ERROR_THRESHOLD) THEN UP
  ELSE HOLD

\* rule_based_policy(obs) raises: m[...] on a slice that is too short, or
\* obs[idx] in _trend
RuleBasedRaises(obs, window_size) ==
  \/ PyIndexError(LatestMetrics(obs, window_size), IDX_TRAFFIC_V2)
  \/ TrendRaises(obs, IDX_ERROR_RATE_V2, window_size, RB_LOOK_BACK)
  \/ TrendRaises(obs, IDX_TOTAL_ERROR_RATE, window_size, RB_LOOK_BACK)

\* rule_based_policy(obs) where it returns; window_size is the module's
\* WINDOW_SIZE, the default of _latest_metrics and _trend
RuleBasedAction(obs, window_size, tie_local, tie_cluster) ==
  RuleBasedRules(
    LatestMetrics(obs, window_size),
    TrendAbove(TrendValues(obs, IDX_ERROR_RATE_V2, window_size, RB_LOOK_BACK), tie_local),
    TrendAbove(TrendValues(obs, IDX_TOTAL_ERROR_RATE, window_size, RB_LOOK_BACK), tie_cluster))

\* rule_based_policy called on its own.  An observation is a window of
\* window_size vectors whose latest vector is drawn around the thresholds of
\* the rules and whose local and cluster errors fall by a constant step per
\* entry of age (not below 0); entries older than look_back hold an error of
\* 0.9, which no trend over the last look_back entries sees.
PolicyLatestCases ==
  [error_rate_v2 : {5, 9, 10, 20, 21}, total_error_rate : {5, 9, 10, 25, 26},
   latency_p95_v2 : {400, 401}, end_to_end_latency : {500, 501},
   cpu_usage_v2 : {800, 801}, memory_usage_v2 : {850, 851}]

PolicySlopes == {0, 2, 3}

\* the error of the entry of the given age
PolicyAged(latest, slope, age) ==
  IF age >= RB_LOOK_BACK THEN 900
  ELSE IF latest - slope * age < 0 THEN 0 ELSE latest - slope * age

PolicyObs(window_size, c, slope_local, slope_cluster) ==
  Concat([i \in 1..window_size |->
            << PolicyAged(c.error_rate_v2, slope_local, window_size - i),
               c.latency_p95_v2, c.cpu_usage_v2, c.memory_usage_v2,
               PolicyAged(c.total_error_rate, slope_cluster, window_size - i),
               c.end_to_end_latency, 500, F32(FZero) >>])

PolIdle ==
  /\ p_pc = "idle" /\ p_window = 0 /\ p_obs = <<>> /\ p_m = <<>>
  /\ p_values = <<>> /\ p_action = HOLD

PolInit(windows) ==
  /\ p_pc = "call"
  /\ p_window \in windows
  /\ \E c \in PolicyLatestCases, sl \in PolicySlopes, sc \in PolicySlopes :
       p_obs = PolicyObs(p_window, c, sl, sc)
  /\ p_m = <<>> /\ p_values = <<>> /\ p_action = HOLD

\* action = rule_based_policy(obs)
PolicyCall ==
  /\ mode = "policy" /\ p_pc = "call"
  /\ p_m' = LatestMetrics(p_obs, RB_WINDOW_SIZE)
  /\ IF RuleBasedRaises(p_obs, RB_WINDOW_SIZE)
     THEN /\ p_pc' = "raised"
          /\ UNCHANGED <<p_values, p_action>>
     ELSE /\ p_pc' = "returned"
          /\ p_values' = [local   |-> TrendValues(p_obs, IDX_ERROR_RATE_V2, RB_WINDOW_SIZE, RB_LOOK_BACK),
                          cluster |-> TrendValues(p_obs, IDX_TOTAL_ERROR_RATE, RB_WINDOW_SIZE, RB_LOOK_BACK)]
          /\ \E tie_local \in BOOLEAN, tie_cluster \in BOOLEAN :
               p_action' = RuleBasedAction(p_obs, RB_WINDOW_SIZE, tie_local, tie_cluster)
  /\ UNCHANGED <<mode, ctl_vars, env_vars, sim_vars, twin_vars, app_vars, p_window, p_obs>>

-----------------------------------------------------------------------------
(* CanaryEnv's synthetic cluster (src/env/canary_env.py)                  *)
(* rates and cascade_factor on the per-mille grid, latencies in ms        *)

ENV_NUM_SERVICES == 5         \* self.num_services
CASCADE_ONE      == 1000      \* cascade_factor 1.0
FThreeTenths     == <<9830, 419430, 419430>>    \* 0.3

Sessions  == {1, 2}
NoScenario == "random"        \* force_scenario=None
NoSeed     == -1              \* seed=None
Scenarios == {"healthy", "buggy", "degrading", "flaky"}

\* One step's draws from np.random: every noise term is k standard
\* deviations of its normal ("minus", "zero", "plus"; "plus" also takes the
\* flaky spikes), or the error's noise is so large that np.clip returns 1.0.
Profiles == {"minus", "zero", "plus", "extreme"}

SimSigmas(profile) == IF profile = "minus" THEN -2 ELSE IF profile = "plus" THEN 2 ELSE 0

\* n / d rounded to the nearest integer, n >= 0
RoundDiv(n, d) == (2 * n + d) \div (2 * d)

\* a binary64 value in [0,1] on the per-mille grid
FMille(x) ==
  LET p == FNorm(1000 * x[1], 1000 * x[2], 1000 * x[3])
  IN  (p[1] + 2^14) \div (2^15)

\* _simulate_canary_error
SimCanaryError(scenario, traffic, step_count, profile) ==
  LET t     == FMille(traffic)
      sigma == IF scenario = "healthy" THEN 1 ELSE IF scenario = "buggy" THEN 3 ELSE 2
      base  == IF scenario = "healthy" THEN 2000 + t * 5
               ELSE IF scenario = "buggy" THEN 25000 + t * 25
               ELSE IF scenario = "degrading"
                 THEN 3000 + (t * 15 * (MaxSteps + 2 * step_count)) \div MaxSteps
               ELSE 2000 + t * 20
                    + (IF FLess(FThreeTenths, traffic) /\ profile = "plus" THEN 25000 ELSE 0)
  IN  IF profile = "extreme" THEN 1000
      ELSE Clip(RoundDiv(base, 1000) + SimSigmas(profile) * sigma, 0, 1000)

\* _simulate_canary_latency
SimCanaryLatency(scenario, traffic, step_count, profile) ==
  LET t    == FMille(traffic)
      base == ENV_BASE_LATENCY * 1000 + t * 80
              + (IF scenario = "buggy" THEN 30000 + t * 40
                 ELSE IF scenario = "degrading" THEN (step_count * 60000) \div MaxSteps
                 ELSE IF scenario = "flaky" /\ profile = "plus" THEN 100000
                 ELSE 0)
      v    == RoundDiv(base, 1000) + SimSigmas(profile) * 8
  IN  IF v < 0 THEN 0 ELSE v

\* _simulate_canary_cpu
SimCanaryCpu(traffic, error_rate_v2, profile) ==
  Clip(50 + RoundDiv(FMille(traffic) * 35, 100) + error_rate_v2 * 5
         + SimSigmas(profile) * 20, 0, 1000)

\* _simulate_canary_memory
SimCanaryMemory(scenario, traffic, step_count, profile) ==
  Clip(100 + RoundDiv(FMille(traffic) * 25, 100)
         + (step_count * (IF scenario = "degrading" THEN 200 ELSE 50)) \div MaxSteps
         + SimSigmas(profile) * 15, 0, 1000)

\* mutant: the smoothing is applied twice in a step
SimUpdateCascade_Twice(traffic, error_rate_v2, cascade_factor) ==
  LET error_pressure == FMille(traffic) * error_rate_v2 * (ENV_NUM_SERVICES - 1)
      once == Clip((3 * error_pressure + 7000 * cascade_factor) \div 10000, 0, CASCADE_ONE)
  IN  Clip((3 * error_pressure + 7000 * once) \div 10000, 0, CASCADE_ONE)

\* mutant: the smoothed value is stored without np.clip
SimUpdateCascade_NoClip(traffic, error_rate_v2, cascade_factor) ==
  LET error_pressure == FMille(traffic) * error_rate_v2 * (ENV_NUM_SERVICES - 1)
  IN  (3 * error_pressure + 7000 * cascade_factor) \div 10000

\* _update_cascade: alpha = 0.3
SimUpdateCascade(traffic, error_rate_v2, cascade_factor) ==
  LET error_pressure == FMille(traffic) * error_rate_v2 * (ENV_NUM_SERVICES - 1)
  IN  Clip((3 * error_pressure + 7000 * cascade_factor) \div 10000, 0, CASCADE_ONE)

\* _simulate_cluster_error
SimClusterError(base, traffic, error_rate_v2, cascade_factor, profile) ==
  LET total == base.cluster_error * 1000
               + (FMille(traffic) * error_rate_v2) \div ENV_NUM_SERVICES
               + cascade_factor * 20
  IN  Clip(RoundDiv(total, 1000) + SimSigmas(profile), 0, 1000)

\* _simulate_cluster_latency
SimClusterLatency(base, traffic, latency_p95_v2, cascade_factor, profile) ==
  LET canary_impact   == (FMille(traffic) * (latency_p95_v2 - ENV_BASE_LATENCY)) \div 2000
      cascade_latency == (cascade_factor * 120) \div CASCADE_ONE
      e2e == base.cluster_latency + canary_impact + cascade_latency
             + SimSigmas(profile) * 10
  IN  IF e2e < 0 THEN 0 ELSE e2e

\* _simulate_request_rate
SimRequestRate(scenario, base, traffic, cascade_factor, profile) ==
  Clip(base.request_rate - (cascade_factor * 15) \div 100
         + (IF scenario = "healthy" THEN RoundDiv(FMille(traffic) * 5, 100) ELSE 0)
         + SimSigmas(profile) * 20, 0, 1000)

SessNoInfo == [traffic_v2 |-> FZero, error_rate_v2 |-> 0, latency_p95_v2 |-> 0,
               cpu_usage_v2 |-> 0, memory_usage_v2 |-> 0, total_error_rate |-> 0,
               end_to_end_latency |-> 0, request_rate |-> 0, cascade_factor |-> 0]

\* CanaryEnv(force_scenario=..., window_size=WindowSize)
SessNew(force_scenario) ==
  [pc             |-> "reset",
   force_scenario |-> force_scenario,
   scenario       |-> IF force_scenario = NoScenario THEN "healthy" ELSE force_scenario,
   np_random      |-> None,
   step_count     |-> 0,
   traffic_v2     |-> FZero,
   cascade_factor |-> 0,
   base           |-> [cluster_error |-> 5, cluster_latency |-> 250, request_rate |-> 500],
   obs_buffer     |-> <<>>,
   pressured      |-> FALSE,
   terminated     |-> FALSE,
   truncated      |-> FALSE,
   branches       |-> {},
   info           |-> SessNoInfo]

\* CanaryEnv.reset(seed=seed); scenario and base are the values np.random
\* returned.  super().reset(seed=seed) seeds self.np_random, the generator
\* gymnasium keeps for the env, which no method of CanaryEnv draws from.
SessReset(s, seed, scenario, base) ==
  [s EXCEPT !.pc             = "loop",
            !.np_random      = IF seed = NoSeed THEN s.np_random ELSE [seed |-> seed, drawn |-> 0],
            !.step_count     = 0,
            !.traffic_v2     = FZero,
            !.cascade_factor = 0,
            !.scenario       = IF s.force_scenario = NoScenario THEN scenario ELSE s.force_scenario,
            !.base           = base,
            !.obs_buffer     = [i \in 1..WindowSize |-> EnvZeroObs(base, FZero)],
            !.pressured      = FALSE,
            !.terminated     = FALSE,
            !.truncated      = FALSE,
            !.branches       = {},
            !.info           = SessNoInfo]

\* CanaryEnv.step(action); profile is what np.random returned during the step
SessStep(s, action, profile) ==
  LET step_count         == s.step_count + 1
      traffic            == ApplyTraffic(s.traffic_v2, action)
      error_rate_v2      == SimCanaryError(s.scenario, traffic, step_count, profile)
      latency_p95_v2     == SimCanaryLatency(s.scenario, traffic, step_count, profile)
      cpu_usage_v2       == SimCanaryCpu(traffic, error_rate_v2, profile)
      memory_usage_v2    == SimCanaryMemory(s.scenario, traffic, step_count, profile)
      cascade_factor     == SimUpdateCascade(traffic, error_rate_v2, s.cascade_factor)
      total_error_rate   == SimClusterError(s.base, traffic, error_rate_v2, cascade_factor, profile)
      end_to_end_latency == SimClusterLatency(s.base, traffic, latency_p95_v2, cascade_factor, profile)
      request_rate       == SimRequestRate(s.scenario, s.base, traffic, cascade_factor, profile)
      single             == EnvBuildSingleObs(error_rate_v2, latency_p95_v2, cpu_usage_v2,
                                              memory_usage_v2, total_error_rate,
                                              end_to_end_latency, request_rate, traffic)
      info               == [traffic_v2 |-> traffic, error_rate_v2 |-> error_rate_v2,
                             latency_p95_v2 |-> latency_p95_v2, cpu_usage_v2 |-> cpu_usage_v2,
                             memory_usage_v2 |-> memory_usage_v2,
                             total_error_rate |-> total_error_rate,
                             end_to_end_latency |-> end_to_end_latency,
                             request_rate |-> request_rate,
                             cascade_factor |-> cascade_factor]
      branches           == EnvBranches(info, traffic, step_count)
  IN  [s EXCEPT !.step_count     = step_count,
                !.traffic_v2     = traffic,
                !.cascade_factor = cascade_factor,
                !.obs_buffer     = DequeAppend(s.obs_buffer, single, WindowSize),
                !.pressured      = s.pressured \/ (FLess(FZero, traffic) /\ error_rate_v2 > 0),
                !.terminated     = (branches \cap {"crit_local", "crit_cluster", "success"} # {}),
                !.truncated      = ("max_steps" \in branches),
                !.branches       = branches,
                !.info           = info]

\* mutant: the window is a class attribute, one deque for every instance
SessWrite_ClassLevelBuffer(sess, i, s) ==
  [j \in Sessions |-> IF j = i THEN s ELSE [sess[j] EXCEPT !.obs_buffer = s.obs_buffer]]

\* the attributes a method assigns are those of its own instance
SessWrite(sess, i, s) == [sess EXCEPT ![i] = s]

\* draws one reset makes from np.random: choice, uniform, uniform, uniform
RESET_DRAWS == 4
\* draws one step makes from np.random (the flaky scenario makes up to 10)
STEP_DRAWS  == 7

\* what np.random can return to one reset
ResetDraws == [scenario : Scenarios, base : EnvBaseDraws]

\* obs, info = env.reset(seed=seed) on session i
SimReset(i, seed, draws) ==
  \E d \in draws :
    /\ s_sess' = SessWrite(s_sess, i, SessReset(s_sess[i], seed, d.scenario, d.base))
    /\ g_rng' = g_rng + RESET_DRAWS
    /\ s_op' = [method |-> "reset", session |-> i, calls |-> s_op.calls + 1]

\* obs, reward, terminated, truncated, info = env.step(action) on session i
SimStep(i, action, profiles) ==
  \E profile \in profiles :
    /\ s_sess' = SessWrite(s_sess, i, SessStep(s_sess[i], action, profile))
    /\ g_rng' = g_rng + STEP_DRAWS
    /\ s_op' = [method |-> "step", session |-> i, calls |-> s_op.calls + 1]

\* the window the policy is handed
SessObs(s) == Concat(s.obs_buffer)

\* evaluate_rule_based: obs, info = env.reset()
RuleReset ==
  /\ mode = "rule" /\ s_sess[1].pc = "reset"
  /\ SimReset(1, NoSeed, ResetDraws)
  /\ UNCHANGED <<mode, ctl_vars, env_vars, twin_vars, app_vars, pol_vars, s_log>>

\* while not (terminated or truncated): action = rule_based_policy(obs);
\* obs, reward, terminated, truncated, info = env.step(action)
RuleStep ==
  /\ mode = "rule" /\ s_sess[1].pc = "loop"
  /\ ~(s_sess[1].terminated \/ s_sess[1].truncated)
  /\ \E tie_local \in BOOLEAN, tie_cluster \in BOOLEAN :
       SimStep(1, RuleBasedAction(SessObs(s_sess[1]), WindowSize, tie_local, tie_cluster), Profiles)
  /\ UNCHANGED <<mode, ctl_vars, env_vars, twin_vars, app_vars, pol_vars, s_log>>

\* evaluate_rule_based / compare_with_rl: what the episode is counted as
\* ("if info["traffic_v2"] >= 1.0 and terminated: success_count += 1")
RuleVerdict(s) ==
  IF FLeq(FOne, s.info.traffic_v2) /\ s.terminated THEN "SUCCESS" ELSE "TIMEOUT or FAILED"

\* evaluate.py: the status printed for the episode
EvalStatus(s) ==
  IF FLeq(FOne, s.info.traffic_v2) THEN "SUCCESS" ELSE "FAIL/TIMEOUT"

\* the while loop is left and the episode's result is recorded
\* (num_episodes = 1)
RuleEpisodeEnd ==
  /\ mode = "rule" /\ s_sess[1].pc = "loop"
  /\ (s_sess[1].terminated \/ s_sess[1].truncated)
  /\ s_sess' = SessWrite(s_sess, 1, [s_sess[1] EXCEPT !.pc = "done"])
  /\ s_op' = [method |-> "end", session |-> 1, calls |-> s_op.calls,
              verdict |-> RuleVerdict(s_sess[1])]
  /\ UNCHANGED <<mode, ctl_vars, env_vars, twin_vars, app_vars, pol_vars, g_rng, s_log>>

\* the draws the freely driven env is run with
FreeProfiles == {"zero", "plus", "extreme"}

\* evaluate.py: obs, info = env.reset()
FreeReset ==
  /\ mode = "free" /\ s_sess[1].pc = "reset"
  /\ SimReset(1, NoSeed, ResetDraws)
  /\ UNCHANGED <<mode, ctl_vars, env_vars, twin_vars, app_vars, pol_vars, s_log>>

\* evaluate.py: action, _ = model.predict(obs); env.step(action), the
\* model returning any of the three actions
FreeStep ==
  /\ mode = "free" /\ s_sess[1].pc = "loop"
  /\ ~(s_sess[1].terminated \/ s_sess[1].truncated)
  /\ \E action \in Actions : SimStep(1, action, FreeProfiles)
  /\ UNCHANGED <<mode, ctl_vars, env_vars, twin_vars, app_vars, pol_vars, s_log>>

\* evaluate.py: the while loop is left and the status line is printed
FreeEpisodeEnd ==
  /\ mode = "free" /\ s_sess[1].pc = "loop"
  /\ (s_sess[1].terminated \/ s_sess[1].truncated)
  /\ s_sess' = SessWrite(s_sess, 1, [s_sess[1] EXCEPT !.pc = "done"])
  /\ s_op' = [method |-> "end", session |-> 1, calls |-> s_op.calls,
              verdict |-> EvalStatus(s_sess[1])]
  /\ UNCHANGED <<mode, ctl_vars, env_vars, twin_vars, app_vars, pol_vars, g_rng, s_log>>

\* two envs in one process (make_vec_env of train.py, the two loops of
\* compare_with_rl), called in any order
MaxCalls  == 4
Seeds     == {7, 8}
PairDraws == { [scenario |-> "healthy", base |-> [cluster_error |-> 3, cluster_latency |-> 200, request_rate |-> 400]],
               [scenario |-> "buggy",   base |-> [cluster_error |-> 8, cluster_latency |-> 300, request_rate |-> 700]] }
PairProfiles == {"zero", "extreme"}

\* env.reset(seed=seed) on either env
PairReset ==
  /\ mode = "pair" /\ s_op.calls < MaxCalls
  /\ \E i \in Sessions, seed \in Seeds :
       /\ SimReset(i, seed, PairDraws)
       /\ s_log' = [s_log EXCEPT ![i] = <<>>]
  /\ UNCHANGED <<mode, ctl_vars, env_vars, twin_vars, app_vars, pol_vars>>

\* env.step(action) on either env
PairStep ==
  /\ mode = "pair" /\ s_op.calls < MaxCalls
  /\ \E i \in Sessions, action \in Actions :
       /\ s_sess[i].pc = "loop"
       /\ ~(s_sess[i].terminated \/ s_sess[i].truncated)
       /\ SimStep(i, action, PairProfiles)
       /\ s_log' = [s_log EXCEPT ![i] = Append(@, [action |-> action, info |-> s_sess'[i].info])]
  /\ UNCHANGED <<mode, ctl_vars, env_vars, twin_vars, app_vars, pol_vars>>

\* no env is built
SimIdle ==
  /\ s_sess = <<>>
  /\ g_rng = 0
  /\ s_log = <<>>
  /\ s_op = [method |-> "none", session |-> 0, calls |-> 0]

\* env = CanaryEnv(force_scenario=force, window_size=WindowSize) for session 1
SimInit(forces) ==
  /\ \E force \in forces :
       s_sess = [i \in Sessions |-> IF i = 1 THEN SessNew(force) ELSE SessNew(NoScenario)]
  /\ g_rng = 0
  /\ s_log = [i \in Sessions |-> <<>>]
  /\ s_op = [method |-> "none", session |-> 0, calls |-> 0]

-----------------------------------------------------------------------------
(* the two loops on one feed: CanaryController.run (controller.py 257-316) *)
(* and reset / step over CanaryEnv (evaluate_rule_based, evaluate.py),    *)
(* with the same policy and the same metric values in every iteration     *)

\* The values one iteration is fed: the controller receives them from its
\* polls, the env in place of its _simulate_* results.  request_rate is the
\* number handed over, 0 or 1.
TwinFeed == <<
  \* healthy
  [error_rate_v2 |-> 1, latency_p95_v2 |-> 120, cpu_usage_v2 |-> 200,
   memory_usage_v2 |-> 300, total_error_rate |-> 5, end_to_end_latency |-> 300,
   request_rate |-> 0],
  \* local error above the policy's threshold, below the critical one
  [error_rate_v2 |-> 25, latency_p95_v2 |-> 120, cpu_usage_v2 |-> 200,
   memory_usage_v2 |-> 300, total_error_rate |-> 5, end_to_end_latency |-> 300,
   request_rate |-> 1],
  \* local error critical
  [error_rate_v2 |-> 41, latency_p95_v2 |-> 120, cpu_usage_v2 |-> 400,
   memory_usage_v2 |-> 300, total_error_rate |-> 10, end_to_end_latency |-> 300,
   request_rate |-> 0],
  \* cluster error critical
  [error_rate_v2 |-> 5, latency_p95_v2 |-> 120, cpu_usage_v2 |-> 200,
   memory_usage_v2 |-> 300, total_error_rate |-> 61, end_to_end_latency |-> 700,
   request_rate |-> 0]
>>

\* the base values reset draws; the first are the controller's defaults
TwinBaseDraws ==
  {[cluster_error |-> 5, cluster_latency |-> 250, request_rate |-> 500]} \cup EnvBaseDraws

TwinNew(obs_buffer) ==
  [running |-> TRUE, step_count |-> 0, traffic_v2 |-> FZero, obs_buffer |-> obs_buffer,
   presented |-> <<>>, traffics |-> <<>>, outcome |-> "RUNNING"]

\* one iteration of the while loop of run, lines 276-311, with the loop
\* condition that follows it
TwinCtlIteration(c, m, tie_local, tie_cluster) ==
  LET step_count  == c.step_count + 1
      single      == CtlBuildSingleObs(m.error_rate_v2, m.latency_p95_v2, m.cpu_usage_v2,
                                       m.memory_usage_v2, m.total_error_rate,
                                       m.end_to_end_latency, CtlNormRps(m.request_rate),
                                       c.traffic_v2)
      obs_buffer  == DequeAppend(c.obs_buffer, single, WindowSize)
      obs         == Concat(obs_buffer)
      action      == RuleBasedAction(obs, WindowSize, tie_local, tie_cluster)
      new_traffic == ApplyTraffic(c.traffic_v2, action)
      outcome     == CtlOutcome([error_rate_v2 |-> m.error_rate_v2,
                                 latency_p95 |-> m.latency_p95_v2,
                                 total_error_rate |-> m.total_error_rate,
                                 e2e_latency |-> m.end_to_end_latency], new_traffic)
      traffic     == IF outcome = "ROLLED_BACK" THEN FZero ELSE new_traffic
      final       == IF outcome = "RUNNING" /\ ~(step_count < MaxSteps)
                     THEN "TIMED_OUT" ELSE outcome
  IN  [running |-> final = "RUNNING", step_count |-> step_count, traffic_v2 |-> traffic,
       obs_buffer |-> obs_buffer, presented |-> obs,
       traffics |-> Append(c.traffics, traffic), outcome |-> final]

\* one iteration of "while not (terminated or truncated)": the policy is
\* called on the obs the previous step (or reset) returned, then env.step
TwinEnvIteration(v, m, tie_local, tie_cluster) ==
  LET obs        == Concat(v.obs_buffer)
      action     == RuleBasedAction(obs, WindowSize, tie_local, tie_cluster)
      step_count == v.step_count + 1
      traffic    == ApplyTraffic(v.traffic_v2, action)
      single     == EnvBuildSingleObs(m.error_rate_v2, m.latency_p95_v2, m.cpu_usage_v2,
                                      m.memory_usage_v2, m.total_error_rate,
                                      m.end_to_end_latency, m.request_rate * 1000, traffic)
      branches   == EnvBranches(m, traffic, step_count)
      outcome    == IF branches \cap {"crit_local", "crit_cluster"} # {} THEN "ROLLED_BACK"
                    ELSE IF "success" \in branches THEN "SUCCEEDED"
                    ELSE IF "max_steps" \in branches THEN "TIMED_OUT"
                    ELSE "RUNNING"
  IN  [running |-> outcome = "RUNNING", step_count |-> step_count, traffic_v2 |-> traffic,
       obs_buffer |-> DequeAppend(v.obs_buffer, single, WindowSize), presented |-> obs,
       traffics |-> Append(v.traffics, traffic), outcome |-> outcome]

\* run up to its loop (the window filled with zero observations) and
\* env.reset()
TwinStart ==
  /\ mode = "twin" /\ t_twin.pc = "start"
  /\ \E base \in TwinBaseDraws :
       t_twin' = [pc  |-> "run",
                  ctl |-> TwinNew([i \in 1..WindowSize |-> CtlZeroObs(FZero)]),
                  env |-> TwinNew([i \in 1..WindowSize |-> EnvZeroObs(base, FZero)])]
  /\ UNCHANGED <<mode, ctl_vars, env_vars, pol_vars, sim_vars, app_vars>>

\* each loop that has not ended makes its next iteration on the same values
TwinIteration ==
  /\ mode = "twin" /\ t_twin.pc = "run"
  /\ t_twin.ctl.running \/ t_twin.env.running
  /\ \E i \in 1..Len(TwinFeed), tie_local \in BOOLEAN, tie_cluster \in BOOLEAN :
       t_twin' = [pc  |-> "run",
                  ctl |-> IF t_twin.ctl.running
                          THEN TwinCtlIteration(t_twin.ctl, TwinFeed[i], tie_local, tie_cluster)
                          ELSE t_twin.ctl,
                  env |-> IF t_twin.env.running
                          THEN TwinEnvIteration(t_twin.env, TwinFeed[i], tie_local, tie_cluster)
                          ELSE t_twin.env]
  /\ UNCHANGED <<mode, ctl_vars, env_vars, pol_vars, sim_vars, app_vars>>

\* ---------------------------------------------------------------------------
\* The demo services (app/src/canary/app.py, app/src/stable/app.py): a Flask
\* app whose handlers run on one thread per request and share the module's
\* counters under "lock".  One action is one critical section ("with lock")
\* or one handler whose body holds a single one.  Rates are per mille,
\* latencies milliseconds.
\* ---------------------------------------------------------------------------
MaxRequests == 3
Requests    == 1..MaxRequests

MAX_LATENCY_WINDOW == 500

\* get_latency / BASE_LATENCY + random.uniform(0, 30): two draws
LatencyDraws == {60, 180}

\* psutil's reading of the process: cpu and memory ratios
UsageDraws == {[cpu_usage |-> 200, memory_usage |-> 300]}

\* sorted(latency_values)[k], k counted from 0
AppSortedAt(values, k) ==
  CHOOSE v \in {values[j] : j \in DOMAIN values} :
    /\ Len(SelectSeq(values, LAMBDA x : x < v)) <= k
    /\ k < Len(SelectSeq(values, LAMBDA x : x <= v))

\* _compute_metrics: the dict both metrics endpoints are built from
AppComputeMetrics(usage) ==
  LET avg_latency        == IF a_request_count > 0
                            THEN RoundDiv(a_total_latency, a_request_count) ELSE 0
      current_error_rate == IF a_request_count > 0
                            THEN RoundDiv(1000 * a_error_count, a_request_count) ELSE 0
      n                  == Len(a_latency_values)
      p95_idx            == (n * 95) \div 100
      latency_p95        == IF n > 0
                            THEN AppSortedAt(a_latency_values,
                                             IF p95_idx < n - 1 THEN p95_idx ELSE n - 1)
                            ELSE 0
  IN  IF a_kind = "canary"
      THEN [error_rate     |-> current_error_rate,
            avg_latency_ms |-> avg_latency,
            latency_p95_ms |-> latency_p95,
            cpu_usage      |-> usage.cpu_usage,
            memory_usage   |-> usage.memory_usage]
      ELSE [error_rate     |-> current_error_rate,
            avg_latency_ms |-> avg_latency]

\* _format_prometheus_metrics: the exposition text, line by line (the HELP and
\* TYPE comments of a family, then its sample)
AppFormatPrometheus(metrics) ==
  LET family(name, value) == <<[line |-> "# HELP", name |-> name, value |-> 0],
                               [line |-> "# TYPE", name |-> name, value |-> 0],
                               [line |-> "sample", name |-> name, value |-> value]>>
  IN  family("demo_app_info", 1)
        \o family("demo_request_error_rate", Get(metrics, "error_rate", 0))
        \o family("demo_request_latency_avg_ms", Get(metrics, "avg_latency_ms", 0))
        \o (IF a_kind = "canary"
            THEN family("demo_request_latency_p95_ms", Get(metrics, "latency_p95_ms", 0))
                   \o family("demo_cpu_usage", Get(metrics, "cpu_usage", 0))
                   \o family("demo_memory_usage", Get(metrics, "memory_usage", 0))
            ELSE <<>>)

\* metrics(): Response(payload, status=200, mimetype="text/plain")
AppMetricsResponse(metrics) ==
  [status_code |-> 200, mimetype |-> "text/plain",
   body |-> [text |-> AppFormatPrometheus(metrics)]]

\* metrics_json(): jsonify(_compute_metrics())
AppMetricsJsonResponse(metrics) ==
  [status_code |-> 200, mimetype |-> "application/json",
   body |-> [document |-> metrics]]

\* process, first critical section: request_count += 1
AppProcessBegin(r) ==
  /\ a_pc = "serving" /\ a_req[r] = "new"
  /\ \A q \in 1..(r - 1) : a_req[q] # "new"
  /\ a_request_count' = a_request_count + 1
  /\ a_req' = [a_req EXCEPT ![r] = "counted"]
  /\ UNCHANGED <<mode, ctl_vars, env_vars, pol_vars, sim_vars, twin_vars, a_pc, a_kind,
                 a_error_count, a_total_latency, a_latency_values, a_served>>

\* process, after the sleep: total_latency += latency and, in the canary, the
\* latency joins the sliding window
AppProcessLatency(r, latency) ==
  /\ a_pc = "serving" /\ a_req[r] = "counted"
  /\ a_total_latency' = a_total_latency + latency
  /\ a_latency_values' =
       IF a_kind = "canary"
       THEN LET appended == Append(a_latency_values, latency)
            IN  IF Len(appended) > MAX_LATENCY_WINDOW THEN Tail(appended) ELSE appended
       ELSE a_latency_values
  /\ a_req' = [a_req EXCEPT ![r] = "timed"]
  /\ UNCHANGED <<mode, ctl_vars, env_vars, pol_vars, sim_vars, twin_vars, a_pc, a_kind,
                 a_request_count, a_error_count, a_served>>

\* process, the outcome: "random.random() < error_rate" counts an error and
\* answers 500, otherwise 200
AppProcessReply(r, error) ==
  /\ a_pc = "serving" /\ a_req[r] = "timed"
  /\ a_error_count' = IF error THEN a_error_count + 1 ELSE a_error_count
  /\ a_req' = [a_req EXCEPT ![r] = "replied"]
  /\ UNCHANGED <<mode, ctl_vars, env_vars, pol_vars, sim_vars, twin_vars, a_pc, a_kind,
                 a_request_count, a_total_latency, a_latency_values, a_served>>

\* reset_metrics
AppResetMetrics ==
  /\ a_pc = "serving"
  /\ a_request_count' = 0
  /\ a_error_count' = 0
  /\ a_total_latency' = 0
  /\ a_latency_values' = <<>>
  /\ UNCHANGED <<mode, ctl_vars, env_vars, pol_vars, sim_vars, twin_vars, a_pc, a_kind,
                 a_req, a_served>>

\* GET /metrics (client: which poll of the controller is answered, 0 for any
\* other client)
AppMetrics(usage, client) ==
  /\ a_pc = "serving"
  /\ LET m == AppComputeMetrics(usage)
     IN  a_served' = [path |-> "/metrics", client |-> client, metrics |-> m,
                      response |-> AppMetricsResponse(m)]
  /\ UNCHANGED <<mode, ctl_vars, env_vars, pol_vars, sim_vars, twin_vars, a_pc, a_kind,
                 a_request_count, a_error_count, a_total_latency, a_latency_values, a_req>>

\* GET /metrics/json
AppMetricsJson(usage) ==
  /\ a_pc = "serving"
  /\ LET m == AppComputeMetrics(usage)
     IN  a_served' = [path |-> "/metrics/json", client |-> 0, metrics |-> m,
                      response |-> AppMetricsJsonResponse(m)]
  /\ UNCHANGED <<mode, ctl_vars, env_vars, pol_vars, sim_vars, twin_vars, a_pc, a_kind,
                 a_request_count, a_error_count, a_total_latency, a_latency_values, a_req>>

NoServed == [path |-> "none", client |-> 0]

AppIdle ==
  /\ a_pc = "off" /\ a_kind = "canary"
  /\ a_request_count = 0 /\ a_error_count = 0 /\ a_total_latency = 0
  /\ a_latency_values = <<>> /\ a_req = <<>> /\ a_served = NoServed

\* the module's globals once app.run serves
AppInit(kinds) ==
  /\ a_pc = "serving" /\ a_kind \in kinds
  /\ a_request_count = 0 /\ a_error_count = 0 /\ a_total_latency = 0
  /\ a_latency_values = <<>>
  /\ a_req = [r \in Requests |-> "new"]
  /\ a_served = NoServed

TwinIdle == t_twin = [pc |-> "idle"]

TwinInit == t_twin = [pc |-> "start", ctl |-> TwinNew(<<>>), env |-> TwinNew(<<>>)]

-----------------------------------------------------------------------------
(* specifications *)

vars == <<mode, ctl_vars, env_vars, ext_vars>>

Init == mode \in {"online", "sim"} /\ CtlInit /\ EnvInit /\ PolIdle /\ SimIdle /\ TwinIdle /\ AppIdle

\* the controller with a traffic sink that accepts every patch
CtlNext ==
  \/ CtlLoadModel
  \/ CtlResetCanaryMetrics({TRUE})
  \/ CtlFillWindow
  \/ CtlLoopEnter
  \/ CtlLoopExit
  \/ CtlGetObservation(PollCases)
  \/ CtlPredict
  \/ CtlApplyAction({TRUE})
  \/ CtlCheck({TRUE})
  \/ CtlSleep

EnvNext ==
  \/ DriverReset
  \/ DriverStep(EnvCases)
  \/ DriverEpisodeEnd

Next == CtlNext \/ EnvNext

Spec == Init /\ [][Next]_vars

\* The rollouts under fairness, for the termination properties.  Metrics
\* influence termination only through the outcome of the step they are polled
\* in, so a step draws from one representative per outcome: the healthy
\* snapshot (a success at full traffic, no outcome below it), the snapshot on
\* the thresholds (never an outcome) and a critical one (a rollback).
LivePollCases == <<PollCases[1], PollCases[3], PollCases[5]>>
LiveEnvCases  == <<EnvCases[1], EnvCases[3], EnvCases[5]>>

LiveNext ==
  \/ CtlLoadModel
  \/ CtlResetCanaryMetrics({TRUE})
  \/ CtlFillWindow
  \/ CtlLoopEnter
  \/ CtlLoopExit
  \/ CtlGetObservation(LivePollCases)
  \/ CtlPredict
  \/ CtlApplyAction({TRUE})
  \/ CtlCheck({TRUE})
  \/ CtlSleep
  \/ DriverReset
  \/ DriverStep(LiveEnvCases)
  \/ DriverEpisodeEnd

\* every step of either loop returns; a pending step is eventually taken
FairSpec == Init /\ [][LiveNext]_vars /\ WF_vars(LiveNext)

\* The controller with a traffic sink whose patch may fail at any call
\* (patch_namespaced_ingress raising, caught in _update_ingress_weights).
OnlineInit == mode = "online" /\ CtlInit /\ EnvInit /\ PolIdle /\ SimIdle /\ TwinIdle /\ AppIdle

SinkNext ==
  \/ CtlLoadModel
  \/ CtlResetCanaryMetrics({TRUE})
  \/ CtlFillWindow
  \/ CtlLoopEnter
  \/ CtlLoopExit
  \/ CtlGetObservation(LivePollCases)
  \/ CtlPredict
  \/ CtlApplyAction(BOOLEAN)
  \/ CtlCheck(BOOLEAN)
  \/ CtlSleep

SinkSpec == OnlineInit /\ [][SinkNext]_vars

\* the same under fairness: a pending step of run is eventually taken (every
\* call of the loop returns, a failing patch included: its exception is caught)
FairSinkSpec == OnlineInit /\ [][SinkNext]_vars /\ WF_vars(SinkNext)

\* The controller with a policy that may fail to load, raise or return an
\* integer outside {0,1,2}, a metrics reset that may fail, and an interrupt
\* that may arrive during the pacing sleep.
FaultNext ==
  \/ CtlLoadModel
  \/ CtlLoadModelFails
  \/ CtlResetCanaryMetrics(BOOLEAN)
  \/ CtlFillWindow
  \/ CtlLoopEnter
  \/ CtlLoopExit
  \/ CtlGetObservation(LivePollCases)
  \/ CtlPredict
  \/ CtlPredictRaises
  \/ CtlPredictInvalid
  \/ CtlApplyAction({TRUE})
  \/ CtlApplyActionRaises
  \/ CtlCheck({TRUE})
  \/ CtlSleep
  \/ CtlStopSignal

FaultSpec == OnlineInit /\ [][FaultNext]_vars

\* The controller with metric sources that fail or answer in part.
\* A canary reply is any sub-dict of a full /metrics reply; the cluster reply
\* holds the Prometheus queries that were answered.
CanaryFull ==
  [error_rate |-> 10, latency_p95_ms |-> 150, avg_latency_ms |-> 120,
   cpu_usage |-> 200, memory_usage |-> 300]
CanaryCritical ==
  [error_rate |-> 41, latency_p95_ms |-> 150, avg_latency_ms |-> 120,
   cpu_usage |-> 200, memory_usage |-> 300]
ClusterFull ==
  [total_error_rate |-> 61, end_to_end_latency |-> 700, request_rate |-> 50]

\* the sub-dict of d on the keys ks
Restrict(d, ks) == [k \in ks |-> d[k]]

RECURSIVE SetToSeq(_)
SetToSeq(S) ==
  IF S = {} THEN <<>>
  ELSE LET x == CHOOSE y \in S : TRUE IN <<x>> \o SetToSeq(S \ {x})

PartialPollCases ==
  SetToSeq(
    \* every combination of fields missing from the canary reply
    {[canary |-> Restrict(CanaryFull, ks), cluster |-> ClusterFull] :
       ks \in SUBSET DOMAIN CanaryFull}
    \* the canary poll failed, and so did some or all of the three queries
    \cup {[canary |-> None, cluster |-> Restrict(ClusterFull, ks)] :
       ks \in {k \in SUBSET DOMAIN ClusterFull :
                 \/ "total_error_rate" \in k
                 \/ k \in {{}, {"end_to_end_latency", "request_rate"}}}}
    \* the canary answered, any of the three queries failed
    \cup {[canary |-> CanaryCritical, cluster |-> Restrict(ClusterFull, ks)] :
       ks \in SUBSET DOMAIN ClusterFull})

PollNext ==
  \/ CtlLoadModel
  \/ CtlResetCanaryMetrics({TRUE})
  \/ CtlFillWindow
  \/ CtlLoopEnter
  \/ CtlLoopExit
  \/ CtlGetObservation(PartialPollCases)
  \/ CtlPredict
  \/ CtlApplyAction({TRUE})
  \/ CtlCheck({TRUE})
  \/ CtlSleep

PollSpec == OnlineInit /\ [][PollNext]_vars

\* The controller cut off from every metrics source: at each step the canary
\* poll fails and each of the three Prometheus queries returns None.
BlindPoll == <<[canary |-> None, cluster |-> NoReply]>>

BlindNext ==
  \/ CtlLoadModel
  \/ CtlResetCanaryMetrics({TRUE})
  \/ CtlFillWindow
  \/ CtlLoopEnter
  \/ CtlLoopExit
  \/ CtlGetObservation(BlindPoll)
  \/ CtlPredict
  \/ CtlApplyAction({TRUE})
  \/ CtlCheck({TRUE})
  \/ CtlSleep

BlindSpec == OnlineInit /\ [][BlindNext]_vars

\* rule_based_policy on the observations of an env built with its
\* WINDOW_SIZE, as evaluate_rule_based and compare_with_rl build it
PolicyInit == mode = "policy" /\ CtlInit /\ EnvInit /\ PolInit({RB_WINDOW_SIZE}) /\ SimIdle /\ TwinIdle /\ AppIdle

PolicyNext == PolicyCall

PolicySpec == PolicyInit /\ [][PolicyNext]_vars

\* rule_based_policy on the observations of envs built with other window
\* sizes (CanaryEnv(window_size=...), --window-size of train.py)
WindowSizes == {RB_WINDOW_SIZE - 1, RB_WINDOW_SIZE, RB_WINDOW_SIZE + 1}

WindowInit == mode = "policy" /\ CtlInit /\ EnvInit /\ PolInit(WindowSizes) /\ SimIdle /\ TwinIdle /\ AppIdle

WindowNext == PolicyCall

WindowSpec == WindowInit /\ [][WindowNext]_vars

\* A demo service under concurrent clients: /api/process requests, metric
\* resets and metric reads arrive in any order and interleave at the lock.
AppSpecInit ==
  /\ mode = "app" /\ CtlInit /\ EnvInit /\ PolIdle /\ SimIdle /\ TwinIdle
  /\ AppInit({"canary", "stable"})

AppNext ==
  \/ \E r \in Requests : AppProcessBegin(r)
  \/ \E r \in Requests : \E latency \in LatencyDraws : AppProcessLatency(r, latency)
  \/ \E r \in Requests : \E error \in BOOLEAN : AppProcessReply(r, error)
  \/ AppResetMetrics
  \/ \E usage \in UsageDraws : AppMetrics(usage, 0)
  \/ \E usage \in UsageDraws : AppMetricsJson(usage)

AppSpec == AppSpecInit /\ [][AppNext]_vars

\* The controller polling the canary service of this repository: each
\* get_observation sends GET {CANARY_SERVICE}/metrics, the canary's handler
\* answers it, and the controller goes on with what get_canary_metrics makes
\* of the reply.  One client keeps the canary busy meanwhile.
ProbeInit ==
  /\ mode = "online" /\ CtlInit /\ EnvInit /\ PolIdle /\ SimIdle /\ TwinIdle
  /\ AppInit({"canary"})

ProbeClients == {1}

\* the canary's metrics() answering the poll of the current step
ProbeServe ==
  /\ c_pc = "observe" /\ a_served.client # c_step_count
  /\ \E usage \in UsageDraws : AppMetrics(usage, c_step_count)

\* get_observation once the reply is in
ProbeObserve ==
  /\ a_served.client = c_step_count
  /\ CtlGetObservation(<<[canary  |-> CtlGetCanaryMetrics(a_served.response),
                          cluster |-> PollCases[1].cluster]>>)

ProbeNext ==
  \/ CtlLoadModel
  \/ CtlResetCanaryMetrics({TRUE})
  \/ CtlFillWindow
  \/ CtlLoopEnter
  \/ CtlLoopExit
  \/ ProbeServe
  \/ ProbeObserve
  \/ CtlPredict
  \/ CtlApplyAction({TRUE})
  \/ CtlCheck({TRUE})
  \/ CtlSleep
  \/ \E r \in ProbeClients : AppProcessBegin(r)
  \/ \E r \in ProbeClients : \E latency \in LatencyDraws : AppProcessLatency(r, latency)
  \/ \E r \in ProbeClients : \E error \in BOOLEAN : AppProcessReply(r, error)
  \/ AppResetMetrics

ProbeSpec == ProbeInit /\ [][ProbeNext]_vars

\* the rule-based policy driving one env, the scenario forced or drawn
RuleInit ==
  /\ mode = "rule" /\ CtlInit /\ EnvInit /\ PolIdle /\ TwinIdle /\ AppIdle
  /\ SimInit({"healthy", "buggy", NoScenario})

RuleNext ==
  \/ RuleReset
  \/ RuleStep
  \/ RuleEpisodeEnd

RuleSpec == RuleInit /\ [][RuleNext]_vars

\* one env driven by any sequence of actions
FreeInit ==
  /\ mode = "free" /\ CtlInit /\ EnvInit /\ PolIdle /\ TwinIdle /\ AppIdle
  /\ SimInit({"healthy", "buggy"})

FreeNext ==
  \/ FreeReset
  \/ FreeStep
  \/ FreeEpisodeEnd

FreeSpec == FreeInit /\ [][FreeNext]_vars

\* two envs of one process
PairInit ==
  /\ mode = "pair" /\ CtlInit /\ EnvInit /\ PolIdle /\ TwinIdle /\ AppIdle
  /\ SimInit({NoScenario})

PairNext ==
  \/ PairReset
  \/ PairStep

PairSpec == PairInit /\ [][PairNext]_vars

\* the controller's loop and the env's loop, iteration by iteration
TwinSpecInit == mode = "twin" /\ CtlInit /\ EnvInit /\ PolIdle /\ SimIdle /\ TwinInit /\ AppIdle

TwinNext ==
  \/ TwinStart
  \/ TwinIteration

TwinSpec == TwinSpecInit /\ [][TwinNext]_vars

-----------------------------------------------------------------------------
(* properties *)

Last(q) == q[Len(q)]

FInUnit(x) == FLeq(FZero, x) /\ FLeq(x, FOne)

\* the step's snapshot breaches a rollback threshold (4% local, 6% cluster)
LocalCritical(m)   == Gt(m.error_rate_v2, 40)
ClusterCritical(m) == Gt(m.total_error_rate, 60)

\* the controller is between the termination check of a step and the next poll
CtlAfterCheck == c_pc \in {"sleep", "loop", "done"} /\ c_step_count >= 1

\* the simulation has returned from a step of the current episode
EnvAfterStep == e_step_count >= 1

\* C1: after every step of any action sequence trafficFraction is within
\* [0,1], in the simulation and in the controller, the value returned by
\* apply_action and the rollback assignment included.
C1_TrafficInUnitInterval ==
  /\ FInUnit(c_traffic_v2)
  /\ FInUnit(c_new_traffic)
  /\ FInUnit(e_traffic_v2)

\* an UP was applied at 0.9999999999999999 (0.1 summed ten times), where the
\* sum exceeds 1.0 and is clamped
C1_Witness ==
  /\ c_pc = "check" /\ c_action = UP /\ c_traffic_v2 = FOne
  /\ c_step_count = 11

\* C2: in the controller, a step whose snapshot has local error > 4% or
\* cluster error > 6% ends the session in that step as ROLLED_BACK, with
\* traffic_v2 forced to 0 and weight 0 the last weight sent to the sink.
C2_CriticalRollsBack ==
  (CtlAfterCheck /\ (LocalCritical(c_metrics) \/ ClusterCritical(c_metrics)))
    => /\ c_pc = "done"
       /\ c_status = "ROLLED_BACK"
       /\ c_traffic_v2 = FZero
       /\ c_sink_last = 0
       /\ Last(c_events) = "rollback"

\* a cluster-only breach rolled back a rollout that had traffic on the canary
C2_Witness ==
  /\ c_status = "ROLLED_BACK"
  /\ ClusterCritical(c_metrics) /\ ~LocalCritical(c_metrics)
  /\ FLess(FZero, c_new_traffic)
  /\ c_sink_last = 0

\* C3: a step whose snapshot has both errors above their critical thresholds
\* ends ROLLED_BACK, whatever the traffic fraction, and no step ends SUCCEEDED
\* while a rollback condition holds (controller and simulation).
C3_RollbackBeforeSuccess ==
  /\ (CtlAfterCheck /\ LocalCritical(c_metrics) /\ ClusterCritical(c_metrics))
       => c_status = "ROLLED_BACK"
  /\ c_status = "SUCCEEDED"
       => ~(LocalCritical(c_metrics) \/ ClusterCritical(c_metrics))
  /\ (EnvAfterStep /\ LocalCritical(e_info) /\ ClusterCritical(e_info))
       => /\ e_terminated
          /\ {"crit_local", "crit_cluster"} \subseteq e_branches
  /\ "success" \in e_branches
       => ~(LocalCritical(e_info) \/ ClusterCritical(e_info))

\* both breaches in the step whose action took the traffic fraction to 1.0
C3_Witness ==
  /\ c_status = "ROLLED_BACK"
  /\ LocalCritical(c_metrics) /\ ClusterCritical(c_metrics)
  /\ c_new_traffic = FOne

\* the outcome the fixed order gives a step: rollback (local, then cluster),
\* then success, then timeout, otherwise still running
C4_Expected(m, new_traffic, step_count) ==
  IF Gt(m.error_rate_v2, 40) THEN "ROLLED_BACK"
  ELSE IF Gt(m.total_error_rate, 60) THEN "ROLLED_BACK"
  ELSE IF /\ new_traffic = FOne /\ Lt(m.error_rate_v2, 20)
          /\ Lt(m.latency_p95, SLO_LATENCY) /\ Lt(m.total_error_rate, 30)
       THEN "SUCCEEDED"
  ELSE IF step_count = MaxSteps THEN "TIMED_OUT"
  ELSE "RUNNING"

\* C4: in the controller each step's termination check has one outcome, taken
\* in the order local rollback, cluster rollback, success, timeout, else
\* running; a success at stepIndex = maxSteps is SUCCEEDED, not TIMED_OUT.
\* (The code leaves the loop on timeout only after the pacing sleep: until
\* then the session still counts as RUNNING.)
C4_OutcomeInFixedOrder ==
  LET expected == C4_Expected(c_metrics, c_new_traffic, c_step_count) IN
  /\ (c_pc = "done" /\ c_step_count >= 1) => c_status = expected
  /\ (c_pc \in {"sleep", "loop"} /\ c_step_count >= 1)
       => /\ c_status = "RUNNING"
          /\ expected \in {"RUNNING", "TIMED_OUT"}
          /\ (expected = "TIMED_OUT") = (c_step_count = MaxSteps)

\* success in the very last step allowed
C4_Witness ==
  /\ c_pc = "done" /\ c_status = "SUCCEEDED" /\ c_step_count = MaxSteps

\* the four success conditions on a step's snapshot and post-action fraction
C5_Conditions(err, lat, gerr, traffic, slo) ==
  /\ traffic = FOne
  /\ Lt(err, 20)
  /\ Lt(lat, slo)
  /\ Lt(gerr, 30)

\* C5: a step ends SUCCEEDED exactly when the post-action trafficFraction is
\* 1, local error < 2%, local p95 latency < SLO and cluster error < 3%
\* (controller and simulation).
C5_SuccessIffConditions ==
  /\ CtlAfterCheck
       => ((c_status = "SUCCEEDED")
             = C5_Conditions(c_metrics.error_rate_v2, c_metrics.latency_p95,
                             c_metrics.total_error_rate, c_new_traffic, SLO_LATENCY))
  /\ ~CtlAfterCheck => c_status # "SUCCEEDED"
  /\ ("success" \in e_branches)
       = (EnvAfterStep
          /\ C5_Conditions(e_info.error_rate_v2, e_info.latency_p95_v2,
                           e_info.total_error_rate, e_info.traffic_v2,
                           ENV_SLO_LATENCY))

\* a success on polled values just under the limits
C5_Witness ==
  /\ c_status = "SUCCEEDED"
  /\ c_metrics.error_rate_v2 = 19 /\ c_metrics.latency_p95 = 199
  /\ c_metrics.total_error_rate = 29

\* C6: a rollout executes at most maxSteps steps and always reaches a
\* terminal state: TIMED_OUT (truncated, in the simulation) exactly when the
\* step counter reaches maxSteps without a rollback or a success.
C6_BoundedAndTerminates ==
  /\ [](/\ c_step_count <= MaxSteps
        /\ e_step_count <= MaxSteps
        /\ (c_status = "TIMED_OUT" => c_step_count = MaxSteps)
        /\ (e_truncated = (e_step_count = MaxSteps)))
  /\ (mode = "online" => <>(c_pc = "done" /\ c_status # "RUNNING"))
  /\ (mode = "sim" => [](e_pc = "loop" => <>(e_terminated \/ e_truncated)))

\* a rollout that ran out of steps
C6_Witness ==
  /\ c_pc = "done" /\ c_status = "TIMED_OUT" /\ c_step_count = MaxSteps

\* C7: a rollout starts RUNNING with trafficFraction 0 and stepIndex 0, and
\* once it has ended no further step runs: step counter and traffic fraction
\* keep their values, the policy and the sink are not called again.  (In the
\* simulation the driver may then start a new rollout by reset.)
C7_TerminalAbsorbing ==
  /\ (c_status = "RUNNING" /\ c_traffic_v2 = FZero /\ c_step_count = 0)
  /\ (e_traffic_v2 = FZero /\ e_step_count = 0 /\ ~e_terminated /\ ~e_truncated)
  /\ [][c_status # "RUNNING"
          => UNCHANGED <<c_status, c_step_count, c_traffic_v2, c_predict_calls,
                         c_sink_calls, c_sink_last, c_obs_buffer>>]_vars
  /\ [][(e_terminated \/ e_truncated)
          => \/ UNCHANGED <<e_step_count, e_traffic_v2, e_obs_buffer, e_action,
                            e_terminated, e_truncated>>
             \/ (e_pc = "reset" /\ e_pc' = "loop")]_vars
  /\ [][(e_pc = "reset" /\ e_pc' = "loop")
          => (e_traffic_v2' = FZero /\ e_step_count' = 0
              /\ ~e_terminated' /\ ~e_truncated')]_vars

\* an ended rollout that still had steps left
C7_Witness ==
  /\ c_pc = "done" /\ c_status = "SUCCEEDED" /\ c_predict_calls = 11

StepEvents == <<"inc", "snapshot", "push", "policy", "apply", "sink", "check">>

\* C8: within a controller step the events occur in the order increment,
\* snapshot, window push, policy, apply, sink push, termination check, each
\* once (a rollback adds its own sink push after the check), and the next step
\* begins only after the termination check of the one before.
C8_StepOrder ==
  /\ [](/\ c_pc = "observe" => c_events = SubSeq(StepEvents, 1, 1)
        /\ c_pc = "predict" => c_events = SubSeq(StepEvents, 1, 3)
        /\ c_pc = "apply"   => c_events = SubSeq(StepEvents, 1, 4)
        /\ c_pc = "check"   => c_events = SubSeq(StepEvents, 1, 6)
        /\ CtlAfterCheck
             => c_events = IF c_status = "ROLLED_BACK"
                           THEN Append(StepEvents, "rollback") ELSE StepEvents
        /\ c_predict_calls = (IF c_pc \in {"observe", "predict"}
                              THEN c_step_count - 1 ELSE c_step_count))
  /\ [][c_step_count' # c_step_count
          => /\ c_step_count' = c_step_count + 1
             /\ (c_step_count = 0 \/ Last(c_events) = "check")]_vars

\* the second step has been completed after the first
C8_Witness ==
  /\ c_pc = "sleep" /\ c_step_count = 2 /\ c_events = StepEvents

\* C9: HOLD leaves trafficFraction unchanged, INCREASE sets it to
\* min(1, t + 0.1), DECREASE to max(0, t - 0.1); no action moves it by more
\* than one step (up to the rounding of the binary64 sum), and applying an
\* action changes nothing else of the rollout state.
C9_ActionEffect ==
  /\ [][(c_pc = "apply" /\ c_pc' # "apply")
          => /\ c_action = HOLD => c_traffic_v2' = c_traffic_v2
             /\ c_action = UP
                  => c_traffic_v2' = FMin(FOne, FAdd(c_traffic_v2, FTenth))
             /\ c_action = DOWN
                  => c_traffic_v2' = FMax(FZero, FSub(c_traffic_v2, FTenth))
             /\ FLeq(c_traffic_v2', FAdd(c_traffic_v2, FTenth))
             /\ FLeq(c_traffic_v2, FAdd(c_traffic_v2', FTenth))
             /\ UNCHANGED <<c_status, c_step_count, c_obs_buffer, c_metrics>>]_vars
  /\ [][e_step_count' = e_step_count + 1
          => /\ e_action' = HOLD => e_traffic_v2' = e_traffic_v2
             /\ e_action' = UP
                  => e_traffic_v2' = FMin(FOne, FAdd(e_traffic_v2, FTenth))
             /\ e_action' = DOWN
                  => e_traffic_v2' = FMax(FZero, FSub(e_traffic_v2, FTenth))
             /\ FLeq(e_traffic_v2', FAdd(e_traffic_v2, FTenth))
             /\ FLeq(e_traffic_v2, FAdd(e_traffic_v2', FTenth))]_vars

\* a HOLD applied at a fraction strictly between 0 and 1
C9_Witness ==
  /\ c_pc = "check" /\ c_action = HOLD
  /\ FLess(FZero, c_traffic_v2) /\ FLess(c_traffic_v2, FOne)

VectorInUnit(v) ==
  /\ \A k \in 1..(NUM_METRICS - 1) : v[k] >= 0 /\ v[k] <= 1000
  /\ FInUnit(v[NUM_METRICS])

\* C10: every component of every vector in the observation window lies in
\* [0,1], whatever the raw snapshot values and the traffic fraction, in the
\* controller and in the simulation.
C10_NormalizedInUnit ==
  /\ \A i \in 1..Len(c_obs_buffer) : VectorInUnit(c_obs_buffer[i])
  /\ \A i \in 1..Len(e_obs_buffer) : VectorInUnit(e_obs_buffer[i])

\* the controller's window has been filled (run is at or past its loop)
CtlWindowReady == c_pc = "loop" \/ c_step_count >= 1

\* the environment has been reset at least once
EnvWindowReady == e_pc \in {"loop", "done"} \/ e_step_count >= 1

\* C11: from rollout start onward the window holds exactly W vectors and the
\* flattened observation has length W x 8, at every step including the first
\* (controller and simulation).
C11_WindowAlwaysFull ==
  /\ CtlWindowReady
       => /\ Len(c_obs_buffer) = WindowSize
          /\ Len(CtlObs) = WindowSize * NUM_METRICS
          /\ \A i \in 1..WindowSize : Len(c_obs_buffer[i]) = NUM_METRICS
  /\ EnvWindowReady
       => /\ Len(e_obs_buffer) = WindowSize
          /\ Len(EnvObs) = WindowSize * NUM_METRICS
          /\ \A i \in 1..WindowSize : Len(e_obs_buffer[i]) = NUM_METRICS

\* the observation of the first step, about to be handed to the policy
C11_Witness ==
  /\ c_pc = "predict" /\ c_step_count = 1 /\ c_predict_calls = 0
  /\ Len(CtlObs) = WindowSize * NUM_METRICS

ZeroVector == <<0, 0, 0, 0, 0, 0, 0, FZero>>

\* C12: the window is pre-filled with W zero-valued vectors, so after the
\* push of step k < W its first W-k entries are zero in every component.
C12_PrefillIsZero ==
  /\ (c_pc = "predict" /\ c_step_count < WindowSize)
       => \A i \in 1..(WindowSize - c_step_count) : c_obs_buffer[i] = ZeroVector
  /\ (e_pc = "loop" /\ e_step_count < WindowSize)
       => \A i \in 1..(WindowSize - e_step_count) : e_obs_buffer[i] = ZeroVector

\* C13: the window is a FIFO: a step's push drops exactly the oldest vector,
\* keeps the order of the other W-1 and appends the step's vector as the
\* last entry (controller and simulation).
C13_WindowIsFifo ==
  /\ [][(c_pc = "observe" /\ c_pc' = "predict")
          => /\ Len(c_obs_buffer') = Len(c_obs_buffer)
             /\ \A i \in 1..(WindowSize - 1) : c_obs_buffer'[i] = c_obs_buffer[i + 1]
             /\ Last(c_obs_buffer')[1] = Clip(c_metrics'.error_rate_v2, 0, 1000)
             /\ Last(c_obs_buffer')[5] = Clip(c_metrics'.total_error_rate, 0, 1000)
             /\ Last(c_obs_buffer')[NUM_METRICS] = F32(c_traffic_v2)]_vars
  /\ [][e_step_count' = e_step_count + 1
          => /\ Len(e_obs_buffer') = Len(e_obs_buffer)
             /\ \A i \in 1..(WindowSize - 1) : e_obs_buffer'[i] = e_obs_buffer[i + 1]
             /\ Last(e_obs_buffer')[1] = Clip(e_info'.error_rate_v2, 0, 1000)
             /\ Last(e_obs_buffer')[5] = Clip(e_info'.total_error_rate, 0, 1000)
             /\ Last(e_obs_buffer')[NUM_METRICS] = F32(e_traffic_v2')]_vars

\* more steps than the window holds, and the two oldest entries differ
C13_Witness ==
  /\ c_pc = "predict" /\ c_step_count = WindowSize + 1
  /\ c_obs_buffer[1] # c_obs_buffer[2]
  /\ Last(c_obs_buffer)[1] = 19

\* the fraction an action leads to, written out per action
C14_Advanced(traffic, action) ==
  IF action = UP THEN FMin(FOne, FAdd(traffic, FTenth))
  ELSE IF action = DOWN THEN FMax(FZero, FSub(traffic, FTenth))
  ELSE traffic

\* C14: a failed sink call never changes the control flow: traffic_v2 is
\* advanced by the action all the same, the step goes on to its termination
\* check, whose outcome is the one the snapshot and the fraction give, and
\* every step (also a HOLD step) sends the then-current fraction to the sink.
C14_SinkFailureTolerated ==
  /\ [][c_pc = "apply"
          => /\ c_traffic_v2' = C14_Advanced(c_traffic_v2, c_action)
             /\ c_new_traffic' = c_traffic_v2'
             /\ c_pc' = "check"
             /\ c_sink_calls' = c_sink_calls + 1
             /\ c_sink_last' = FTimes100Int(c_traffic_v2')
             /\ ingress_weight' \in {ingress_weight, c_sink_last'}
             /\ UNCHANGED <<c_status, c_step_count, c_obs_buffer, c_metrics>>]_vars
  /\ [](CtlAfterCheck
          => /\ c_sink_calls = c_step_count + (IF c_status = "ROLLED_BACK" THEN 1 ELSE 0)
             /\ c_predict_calls = c_step_count
             /\ (c_pc = "done" => c_status = C4_Expected(c_metrics, c_new_traffic, c_step_count))
             /\ (c_pc # "done" => c_status = "RUNNING"))

\* a HOLD step whose patch failed: the ingress still holds an older weight
\* than the one just sent, and the rollout goes on
C14_Witness ==
  /\ c_pc = "sleep" /\ c_action = HOLD /\ c_step_count >= 3
  /\ FLess(FZero, c_traffic_v2)
  /\ ingress_weight # c_sink_last /\ ingress_weight # -1

\* the value of key k of a reply, or dflt when the reply lacks it
C15_Or(reply, k, dflt) == IF k \in DOMAIN reply THEN reply[k] ELSE dflt

\* C15: a failed poll never aborts the step: a failed canary poll is replaced
\* by the default local snapshot (error 0.0, latency 100 ms, cpu 0.05, memory
\* 0.10), each failed cluster query by its own default (0.005, 250 ms,
\* 100 rps), and the step goes on to policy, action and termination check.
C15_PollFailureDefaults ==
  c_poll # NoPoll
    => LET v == Last(c_obs_buffer) IN
       /\ c_poll.canary = None
            => /\ c_metrics.error_rate_v2 = 0 /\ c_metrics.latency_p95 = 100
               /\ SubSeq(v, 1, 4) = <<0, 200, 50, 100>>
       /\ c_metrics.total_error_rate = C15_Or(c_poll.cluster, "total_error_rate", 5)
       /\ c_metrics.e2e_latency = C15_Or(c_poll.cluster, "end_to_end_latency", 250)
       /\ v[5] = C15_Or(c_poll.cluster, "total_error_rate", 5)
       /\ v[6] = C15_Or(c_poll.cluster, "end_to_end_latency", 250)
       /\ v[7] = (C15_Or(c_poll.cluster, "request_rate", 100) * 1000) \div 200
       /\ c_pc \in {"predict", "apply", "check", "sleep", "loop", "done", "observe"}
       /\ c_pc = "observe" => c_step_count >= 2
       /\ c_step_count >= 1
       /\ CtlAfterCheck
            => /\ SubSeq(c_events, 1, Len(StepEvents)) = StepEvents
               /\ c_predict_calls = c_step_count
               /\ c_sink_calls >= c_step_count

\* every poll of the step failed, and the rollout went on to its next step
C15_Witness ==
  /\ c_poll = [canary |-> None, cluster |-> NoReply]
  /\ c_pc = "sleep" /\ c_step_count = 2 /\ c_status = "RUNNING"

\* C16: each field of a polled local snapshot is optional: a missing
\* error_rate, cpu_usage or memory_usage is replaced by its default, and the
\* latency is latency_p95_ms if present, else avg_latency_ms, else 100 ms.
C16_LocalFieldsOptional ==
  (c_poll # NoPoll /\ c_poll.canary # None)
    => LET v == Last(c_obs_buffer)
           r == c_poll.canary
           latency == IF "latency_p95_ms" \in DOMAIN r THEN r.latency_p95_ms
                      ELSE IF "avg_latency_ms" \in DOMAIN r THEN r.avg_latency_ms
                      ELSE 100
       IN
       /\ c_metrics.error_rate_v2 = C15_Or(r, "error_rate", 0)
       /\ c_metrics.latency_p95 = latency
       /\ v[1] = C15_Or(r, "error_rate", 0)
       /\ v[2] = (latency * 1000) \div 500
       /\ v[3] = C15_Or(r, "cpu_usage", 50)
       /\ v[4] = C15_Or(r, "memory_usage", 100)
       /\ c_pc \in {"predict", "apply", "check", "sleep", "loop", "done", "observe"}

\* a reply with avg_latency_ms next to latency_p95_ms and nothing else; the
\* step has run to its termination check
C16_Witness ==
  /\ c_poll.canary # None
  /\ DOMAIN c_poll.canary = {"latency_p95_ms", "avg_latency_ms"}
  /\ c_metrics.latency_p95 = 150 /\ c_metrics.error_rate_v2 = 0
  /\ c_pc = "done"

\* C17: a policy that raises or returns a value outside {0,1,2} is treated
\* as HOLD: the policy call always leads on to apply_action, and an invalid
\* action leaves traffic_v2 as it is, goes on to the termination check and
\* does not end the run.
C17_PolicyFaultIsHold ==
  [][ /\ (c_pc = "predict") => (c_pc' = "apply" /\ c_status' = c_status)
      /\ (c_pc = "apply" /\ c_action \notin Actions)
           => /\ c_traffic_v2' = c_traffic_v2
              /\ c_pc' = "check"
              /\ c_status' = c_status ]_vars

\* C18: when the policy cannot be loaded the run ends before any step:
\* step_count is 0, nothing was polled, predicted or applied, the metrics
\* reset was not sent and the ingress was never patched.
C18_LoadFailureIsFatal ==
  ~c_model
    => /\ c_pc \in {"load", "aborted"}
       /\ c_pc = "aborted" => c_status = "ABORTED"
       /\ c_step_count = 0
       /\ c_poll = NoPoll
       /\ c_obs_buffer = <<>>
       /\ c_predict_calls = 0
       /\ c_reset_calls = 0
       /\ c_traffic_v2 = FZero
       /\ c_sink_calls = 0 /\ ingress_weight = -1

\* load_model has raised
C18_Witness == ~c_model /\ c_pc = "aborted" /\ c_status = "ABORTED"

\* C19: a stop signal arriving during the pacing sleep ends the run at once:
\* the step that delivers it leaves run without touching step_count,
\* traffic_v2 or the ingress, and no step, action or sink call follows it.
C19_SleepIsCancellable ==
  [][ /\ (c_pc = "sleep" /\ c_events' # c_events)
           => /\ c_pc' = "aborted"
              /\ UNCHANGED <<c_step_count, c_traffic_v2, c_new_traffic, c_poll,
                             c_predict_calls, c_sink_calls, c_sink_last,
                             ingress_weight>>
      /\ ~(c_events # <<>> /\ Last(c_events) = "stop_signal") ]_vars

\* C20: POST /metrics/reset is sent exactly once, after load_model and before
\* the first get_observation, and the run goes on whether or not it went
\* through.
C20_ResetOnceBeforeFirstPoll ==
  /\ [](/\ c_reset_calls = (IF c_model /\ c_pc # "reset_metrics" THEN 1 ELSE 0)
        /\ (c_step_count >= 1 \/ c_poll # NoPoll) => c_reset_calls = 1)
  /\ [][(c_pc = "reset_metrics")
          => /\ c_model
             /\ c_reset_calls' = 1
             /\ c_pc' = "fill" /\ c_status' = "RUNNING"
             /\ c_poll = NoPoll /\ c_step_count = 0]_vars

\* the reset failed and the rollout ran to its successful end
C20_Witness ==
  ~c_reset_ok /\ c_reset_calls = 1 /\ c_status = "SUCCEEDED" /\ c_step_count >= 10

\* 100 * traffic as an exact value, rounded to the nearest integer
C21_Percent(traffic) ==
  LET p == FNorm(100 * traffic[1], 100 * traffic[2], 100 * traffic[3])
  IN  (p[1] + 2^14) \div (2^15)

\* C21: every weight sent to the ingress is an integer in 0..100 equal to
\* 100 times the traffic_v2 held at the time (10 * k after k net UP steps).
C21_WeightIsPercentOfTraffic ==
  c_sink_calls > 0
    => /\ c_sink_last \in 0..100
       /\ c_sink_last = C21_Percent(c_traffic_v2)

\* C22: patching the ingress with the weight it was last patched with leaves
\* it as it is: the patch sets the canary-weight annotation, it does not
\* accumulate.
C22_SinkIsIdempotent ==
  [][ (/\ c_sink_calls > 0
       /\ c_sink_calls' = c_sink_calls + 1
       /\ ingress_weight = c_sink_last
       /\ c_sink_last' = c_sink_last)
        => ingress_weight' = ingress_weight ]_vars

\* UP, then HOLD twice: the weight 10 has been patched three times
C22_Witness ==
  /\ c_sink_calls = 3 /\ c_step_count = 3 /\ c_action = HOLD
  /\ c_sink_last = 10 /\ ingress_weight = 10

\* the vector pushed last: the last NUM_METRICS components of obs
C23_Latest(obs) == SubSeq(obs, Len(obs) - NUM_METRICS + 1, Len(obs))

\* component idx of the last min(5, window) vectors of obs, oldest first
C23_Recent(obs, idx, window) ==
  LET n == IF window < 5 THEN window ELSE 5
  IN  [j \in 1..n |-> obs[(window - n + j - 1) * NUM_METRICS + idx + 1]]

\* the verdicts of rules 1 to 5 of the claim on obs; a trend exactly on the
\* slope threshold is "tie"
C23_Rule1(obs) == C23_Latest(obs)[1] > 20
C23_Rule2(obs) == C23_Latest(obs)[5] > 25
C23_Rule3(obs, window) == {SlopeAgainst(C23_Recent(obs, 0, window), 2), SlopeAgainst(C23_Recent(obs, 4, window), 2)}
C23_Rule4(obs) == C23_Latest(obs)[2] > 400 \/ C23_Latest(obs)[6] > 500
C23_Rule5(obs) == C23_Latest(obs)[3] > 800 \/ C23_Latest(obs)[4] > 850
C23_Rule6(obs) == C23_Latest(obs)[1] < 10 /\ C23_Latest(obs)[5] < 10

\* the actions the claim allows for obs
C23_Allowed(obs, window) ==
  LET below == IF C23_Rule4(obs) \/ C23_Rule5(obs) THEN HOLD
               ELSE IF C23_Rule6(obs) THEN UP ELSE HOLD
  IN  IF C23_Rule1(obs) \/ C23_Rule2(obs) THEN {DOWN}
      ELSE IF "above" \in C23_Rule3(obs, window) THEN {HOLD}
      ELSE IF "tie" \in C23_Rule3(obs, window) THEN {HOLD, below}
      ELSE {below}

C30_LatestOfConfiguredWindow ==
  p_pc \in {"returned", "raised"}
    => /\ p_pc = "returned"
       /\ p_m = C23_Latest(p_obs)
       /\ p_values.local = C23_Recent(p_obs, 0, p_window)
       /\ p_values.cluster = C23_Recent(p_obs, 4, p_window)

\* C24: with scenario buggy forced and the rule-based policy driving the env
\* from reset, the episode ends by the critical local error (error_rate_v2 >
\* 0.04) within its first 5 steps, in every run.
C24_BuggyRollsBackWithinFive ==
  LET s == s_sess[1]
  IN  (mode = "rule" /\ s.force_scenario = "buggy" /\ s.pc # "reset"
         /\ (s.step_count >= 5 \/ s.terminated \/ s.truncated))
        => ("crit_local" \in s.branches /\ s.step_count <= 5)

\* C26: cascade_factor, as the env holds it and as info reports it, lies in
\* [0, 1] in every state whatever the actions and the error rates drawn, and
\* after reset it is non-zero only if some step since the reset had both
\* traffic_v2 > 0 and error_rate_v2 > 0.
C26_CascadeInUnitInterval ==
  \A i \in Sessions :
    LET s == s_sess[i]
    IN  /\ 0 <= s.cascade_factor /\ s.cascade_factor <= CASCADE_ONE
        /\ 0 <= s.info.cascade_factor /\ s.info.cascade_factor <= CASCADE_ONE
        /\ (s.cascade_factor # 0 => s.pressured)

\* an error rate of 1.0 at nine tenths of the traffic: np.clip cuts the
\* smoothed value back to 1.0
C26_Witness ==
  /\ mode = "free"
  /\ s_sess[1].cascade_factor = CASCADE_ONE
  /\ s_sess[1].info.error_rate_v2 = 1000
  /\ s_sess[1].pressured

\* C27: a reset or a step of one env leaves the other env's traffic_v2,
\* step_count, observation window and cascade_factor as they were.
C27_Owned(s) == <<s.traffic_v2, s.step_count, s.obs_buffer, s.cascade_factor>>

C27_SessionsShareNoState ==
  [][\A i \in Sessions :
       s_op'.session # i => C27_Owned(s_sess'[i]) = C27_Owned(s_sess[i])]_vars

\* both envs have been reset and stepped, the second after the first
C27_Witness ==
  /\ mode = "pair"
  /\ s_sess[1].step_count >= 1 /\ s_sess[2].step_count >= 1
  /\ s_sess[1].obs_buffer # s_sess[2].obs_buffer

\* C28: two rollouts reset with the same seed and driven by the same actions
\* run the same scenario and return the same metrics, step for step.
C28_Reproducible ==
  \A i \in Sessions, j \in Sessions :
    (/\ mode = "pair"
     /\ s_sess[i].pc = "loop" /\ s_sess[j].pc = "loop"
     /\ s_sess[i].np_random = s_sess[j].np_random
     /\ [k \in DOMAIN s_log[i] |-> s_log[i][k].action] = [k \in DOMAIN s_log[j] |-> s_log[j][k].action])
      => /\ s_sess[i].scenario = s_sess[j].scenario
         /\ s_log[i] = s_log[j]

\* C29: run and the reset/step loop, with the same policy and the same
\* metric values in every iteration, hand the policy the same observation,
\* hold the same traffic after every iteration and end in the same iteration
\* with the same outcome.
C29_SameControlLoop ==
  (mode = "twin" /\ t_twin.pc = "run")
    => /\ t_twin.ctl.presented = t_twin.env.presented
       /\ t_twin.ctl.traffics = t_twin.env.traffics
       /\ t_twin.ctl.step_count = t_twin.env.step_count
       /\ t_twin.ctl.outcome = t_twin.env.outcome

\* C31: a step of CanaryEnv whose local error exceeds 0.04 or whose cluster
\* error exceeds 0.06 ends the episode with traffic_v2 forced to 0, in the env
\* and in the info it returns.
C31_EnvRollbackForcesZero ==
  \A i \in DOMAIN s_sess :
    (s_sess[i].branches \cap {"crit_local", "crit_cluster"} # {})
      => /\ s_sess[i].terminated
         /\ s_sess[i].traffic_v2 = FZero
         /\ s_sess[i].info.traffic_v2 = FZero

\* C32: cascade_factor changes only in a step, to
\* clamp(0.3 * traffic_v2 * error_rate_v2 * (num_services - 1) + 0.7 * cascade_factor, 0, 1)
\* applied once, and in reset, to 0; so a step with traffic_v2 = 0 or error 0
\* does not raise it, and a value above the grid's resolution falls to 0 only
\* through reset.
C32_Smoothed(traffic, error_rate_v2, cascade_factor) ==
  LET pressure == FMille(traffic) * error_rate_v2 * 4
      v        == (3 * pressure + 7000 * cascade_factor) \div 10000
  IN  IF v > 1000 THEN 1000 ELSE IF v < 0 THEN 0 ELSE v

C32_CascadeUpdatedOncePerStep ==
  [][\A i \in DOMAIN s_sess :
       LET before == s_sess[i]
           after  == s_sess'[i]
           mine   == s_op'.session = i
       IN  /\ (mine /\ s_op'.method = "reset") => after.cascade_factor = 0
           /\ (mine /\ s_op'.method = "step")
                => /\ after.cascade_factor =
                        C32_Smoothed(after.traffic_v2, after.info.error_rate_v2, before.cascade_factor)
                   /\ (FMille(after.traffic_v2) = 0 \/ after.info.error_rate_v2 = 0)
                        => after.cascade_factor <= before.cascade_factor
                   /\ before.cascade_factor >= 2 => after.cascade_factor > 0
           /\ ~(mine /\ s_op'.method \in {"reset", "step"})
                => after.cascade_factor = before.cascade_factor]_vars

\* a step has smoothed a cascade_factor that was already positive
C32_Witness ==
  /\ mode = "pair"
  /\ s_op.method = "step"
  /\ s_sess[s_op.session].step_count >= 2
  /\ s_sess[s_op.session].cascade_factor > 0
  /\ FMille(s_sess[s_op.session].traffic_v2) = 0

\* C33: in both services error_count <= request_count in every state, whatever
\* the interleaving of /api/process requests and /metrics/reset calls, and the
\* error_rate of every metrics read is a fraction in [0, 1].
C33_ErrorsWithinRequests ==
  /\ a_error_count <= a_request_count
  /\ (a_served # NoServed) => a_served.metrics.error_rate \in 0..1000

\* C34: when the canary service answered the local metrics poll with status
\* 200, the local error rate, latency, CPU and memory the controller uses for
\* the observation and the rollback check are the values the canary reported.
C34_Reported == a_served.metrics

C34_UsesReportedLocalMetrics ==
  (/\ c_pc \in {"predict", "apply", "check"}
   /\ a_served.client = c_step_count
   /\ a_served.response.status_code = 200)
    => /\ c_metrics.error_rate_v2 = C34_Reported.error_rate
       /\ c_metrics.latency_p95 = C34_Reported.latency_p95_ms
       /\ c_pc = "predict" => c_obs_buffer[Len(c_obs_buffer)] =
            CtlBuildSingleObs(C34_Reported.error_rate, C34_Reported.latency_p95_ms,
                              C34_Reported.cpu_usage, C34_Reported.memory_usage,
                              c_metrics.total_error_rate, c_metrics.e2e_latency,
                              CtlNormRps(PollCases[1].cluster.request_rate), c_traffic_v2)

\* C35: in a controller step whose snapshot breaches a rollback threshold
\* (local error > 4% or cluster error > 6%), no patch sent to the traffic sink
\* carries a canary weight above the one in force when the step began,
\* whatever action the policy returned.
C35_Breach ==
  \/ Gt(c_metrics.error_rate_v2, CTL_CRIT_LOCAL)
  \/ Gt(c_metrics.total_error_rate, CTL_CRIT_CLUSTER)

C35_NoRaiseOnBreach ==
  [][(/\ c_pc \in {"apply", "check"}
      /\ C35_Breach
      /\ c_sink_calls' > c_sink_calls)
       => c_sink_last' <= FTimes100Int(c_traffic_v2)]_vars

\* C36: whenever the controller ends a session ROLLED_BACK, the canary weight
\* held by the ingress eventually becomes 0, even if patches can fail.
C36_RollbackReachesSink == (c_status = "ROLLED_BACK") ~> (ingress_weight = 0)

\* C37: a rollout in which every metrics poll fails at every step (the canary
\* poll and all cluster queries) never ends SUCCEEDED, whatever the policy
\* returns.
C37_NoSuccessWhenBlind == c_status # "SUCCEEDED"

\* C38: CanaryEnv.step never returns terminated and truncated both true: a
\* step that ends an episode reports exactly one ending.
C38_OneEnding ==
  \A i \in DOMAIN s_sess : ~(s_sess[i].terminated /\ s_sess[i].truncated)

\* C39: the evaluation drivers count or report an episode as a success only
\* if it ended through the success condition of step (traffic_v2 = 1 with
\* local error, latency and cluster error under their success limits), never
\* one that ended by a critical rollback or by timeout.
C39_SuccessOnlyBySuccessCondition ==
  (s_op.method = "end" /\ s_op.verdict = "SUCCESS")
    => "success" \in s_sess[s_op.session].branches

\* C40: when the controller ends TIMED_OUT (step_count reached max_steps with
\* neither rollback nor success), the exit changes neither traffic_v2 nor the
\* sink: no patch is sent, and both keep what the last step's action applied.
C40_TimeoutExitChangesNothing ==
  [][/\ (c_status # "TIMED_OUT" /\ c_status' = "TIMED_OUT")
          => /\ c_step_count = MaxSteps
             /\ UNCHANGED <<c_traffic_v2, c_sink_calls, c_sink_last, ingress_weight>>
             /\ c_traffic_v2' = c_new_traffic
             /\ c_sink_last' = FTimes100Int(c_new_traffic)
     /\ c_status = "TIMED_OUT"
          => UNCHANGED <<c_traffic_v2, c_sink_calls, c_sink_last, ingress_weight>>]_vars

C40_Witness ==
  /\ c_status = "TIMED_OUT" /\ c_pc = "done"
  /\ FLess(FZero, c_traffic_v2) /\ FLess(c_traffic_v2, FOne)
  /\ ingress_weight > 0
  /\ c_sink_last = FTimes100Int(c_traffic_v2)

=============================================================================
